---- MODULE Spec2Model ----
(***************************************************************************)
(* STG -> CORE reconciliation of KE-WhyNot/BE-policy-service.               *)
(*                                                                         *)
(*  - finproduct pipeline: the landing normalizers (02_stg_base.py,        *)
(*    03_stg_option.py) and the core reconciler upsert_for_type            *)
(*    (04_stg_to_core.py), statement by statement inside its transaction.  *)
(*  - policy pipeline: the association syncs of policy/04_stg_to_core.py.  *)
(*                                                                         *)
(* SQL NULL of a text column is the string NULL; a nullable integer is a   *)
(* record [null, val].  Timestamps are the ticks of one global clock;      *)
(* now() is the tick at which the transaction began.                       *)
(***************************************************************************)
EXTENDS Integers, Sequences, FiniteSets, TLC

VARIABLES
    baseLanding,       \* stg.finproduct_base_landing
    optLanding,        \* stg.finproduct_option_landing
    product,           \* core.product
    productOption,     \* core.product_option
    specialCondition,  \* core.product_special_condition
    productSeq,        \* BIGSERIAL of core.product.id
    optionSeq,         \* BIGSERIAL of core.product_option.id
    clock,             \* wall clock
    horizon,           \* the tick at which the model stops observing
    pc,                \* next statement of the running upsert_for_type, or "idle"
    txn,               \* the open transaction of run()
    synced,            \* product types whose landing rows are unchanged since their last committed run
    assoc,             \* policy association tables: table name -> set of <<policy_id, ref_id>>
    lastSync,          \* what the last association sync was given and what it returned
    policyLanding,     \* stg.youthpolicy_landing
    policyCurrent,     \* stg.youthpolicy_current
    policy,            \* core.policy
    polClock,          \* wall clock of the policy pipeline
    statusRun,         \* the date of update_policy_status when it was the last to write core.policy, else 0
    orch,              \* run_all_policy_elt: the stages started, their outcomes and exit codes
    runs,              \* the transactions of two finproduct reconciler processes that run at the same time
    etl,               \* run_etl of policy/04_stg_to_core.py: its position, its items, core.policy_eligibility
    ingest,            \* 01_raw_ingest.py: the upstream it reads, the position of its fetch loop, the RAW page log
    observed           \* per natural key, the content hashes of the items of the key in the page landed last

vars == <<baseLanding, optLanding, product, productOption, specialCondition,
          productSeq, optionSeq, clock, horizon, pc, txn, synced, assoc, lastSync,
          policyLanding, policyCurrent, policy, polClock, statusRun, orch, runs, etl, ingest, observed>>

finVars == <<baseLanding, optLanding, product, productOption, specialCondition,
             productSeq, optionSeq, clock, horizon, pc, txn, synced, runs>>

stgVars == <<policyLanding, policyCurrent, policy, polClock, statusRun>>

polVars == <<assoc, lastSync, stgVars, orch, etl>>

-----------------------------------------------------------------------------
(* Bounds of the model *)

MaxClock == 4

MaxBatch == 2

MaxBaseRows == 3

MaxOptRows == 2

-----------------------------------------------------------------------------
(* SQL values *)

NULL == "NULL"

NullTs == 0

NullInt == [null |-> TRUE, val |-> 0]

IntVal(n) == [null |-> FALSE, val |-> n]

Coalesce(x, d) == IF x = NULL THEN d ELSE x

CoalesceInt(x, d) == IF x.null THEN d ELSE x.val

\* NULLIF(payload->>'save_trm','')::int
ParseInt(s) ==
    CASE s = NULL -> NullInt
      [] s = ""   -> NullInt
      [] s = "-1" -> IntVal(-1)
      [] s = "6"  -> IntVal(6)
      [] s = "12" -> IntVal(12)

\* to_date(COALESCE(dcls_month,'190001'),'YYYYMM'), as the number YYYYMM
ToDate(m) ==
    CASE Coalesce(m, "190001") = "190001" -> 190001
      [] m = "202401" -> 202401
      [] m = "202402" -> 202402

-----------------------------------------------------------------------------
(* Landing normalizers *)

ProductTypes == {"DEPOSIT", "SAVING"}

ExtSource(pt) == IF pt = "DEPOSIT" THEN "finlife_deposit" ELSE "finlife_saving"

MonthCode(m) == CASE m = NULL -> 1 [] m = "202401" -> 3 [] m = "202402" -> 2

TextCode(s) == CASE s = NULL -> 0 [] s = "" -> 1 [] s = "S" -> 2 [] s = "app" -> 3
                 [] s = "-1" -> 4 [] s = "6" -> 5 [] s = "12" -> 6
                 [] s = "3.0" -> 7 [] s = "3.5" -> 8
                 [] s = "-" -> 9 [] s = " " -> 10

\* sha256_hex(norm_json(item)) of a baseList item: one digest per content
\* fin_co_subm_day, the time the company submitted the disclosure
SubmCode(d) == CASE d = "1" -> 1 [] d = "2" -> 2

BaseContentHash(p) ==
    MonthCode(p.dcls_month) * 1000 + TextCode(p.spcl_cnd) * 10 + SubmCode(p.fin_co_subm_day)

\* sha256_hex(norm_json(item)) of an optionList item
OptContentHash(p) ==
    ((((9 - TextCode(p.intr_rate)) * 10 + TextCode(p.save_trm)) * 10
        + TextCode(p.intr_rate_type)) * 10 + TextCode(p.rsrv_type)) * 10
        + MonthCode(p.dcls_month)

\* the baseList items the upstream pages carry: (product_type, fin_prdt_cd, item)
BaseItems ==
    { [product_type |-> "DEPOSIT", fin_prdt_cd |-> "P1", payload |-> p] :
        p \in { [dcls_month |-> "202401", spcl_cnd |-> "", fin_co_subm_day |-> "1"],
                [dcls_month |-> "202401", spcl_cnd |-> "app", fin_co_subm_day |-> "1"],
                [dcls_month |-> "202401", spcl_cnd |-> "-", fin_co_subm_day |-> "1"],
                [dcls_month |-> "202402", spcl_cnd |-> "", fin_co_subm_day |-> "1"],
                [dcls_month |-> NULL, spcl_cnd |-> "", fin_co_subm_day |-> "1"] } }
    \cup
    { [product_type |-> "SAVING", fin_prdt_cd |-> "P1", payload |-> p] :
        p \in { [dcls_month |-> "202401", spcl_cnd |-> "", fin_co_subm_day |-> "1"],
                [dcls_month |-> "202401", spcl_cnd |-> "", fin_co_subm_day |-> "2"] } }

OptPayload(m, trm, typ, rsrv, rate) ==
    [dcls_month |-> m, save_trm |-> trm, intr_rate_type |-> typ,
     rsrv_type |-> rsrv, intr_rate |-> rate]

\* the optionList items the upstream pages carry
OptItems ==
    { [product_type |-> "DEPOSIT", fin_prdt_cd |-> "P1", payload |-> p] :
        p \in { OptPayload("202401", "12", "S", NULL, "3.0"),
                OptPayload("202402", "12", "S", NULL, "3.5"),
                OptPayload(NULL, "", NULL, NULL, "3.0"),
                OptPayload(NULL, "6", "S", NULL, "3.5"),
                OptPayload("202401", "-1", "", "", "3.5") } }
    \cup
    { [product_type |-> "SAVING", fin_prdt_cd |-> "P1",
       payload |-> OptPayload("202401", "12", "S", "S", "3.0")] }

BaseLandingRow(item, ts) ==
    [run_ts |-> ts, product_type |-> item.product_type,
     ext_source |-> ExtSource(item.product_type), fin_prdt_cd |-> item.fin_prdt_cd,
     payload |-> item.payload, content_hash |-> BaseContentHash(item.payload)]

OptLandingRow(item, ts) ==
    [run_ts |-> ts, product_type |-> item.product_type,
     ext_source |-> ExtSource(item.product_type), fin_prdt_cd |-> item.fin_prdt_cd,
     payload |-> item.payload, content_hash |-> OptContentHash(item.payload)]

\* the columns of the landing tables' unique index
LandingKey(r) == <<r.product_type, r.ext_source, r.fin_prdt_cd, r.content_hash>>

\* the INSERT of one batch without the conflict clause
InsertAll(table, rows) == table \cup rows

\* INSERT ... ON CONFLICT DO NOTHING of one batch
InsertOnConflictDoNothing(table, rows) ==
    table \cup { r \in rows : \A t \in table : LandingKey(t) # LandingKey(r) }

Batches(items) == { b \in SUBSET items : Cardinality(b) \in 1..MaxBatch }

\* the natural keys of the baseList items
BaseKeys == { <<i.product_type, i.fin_prdt_cd>> : i \in BaseItems }

\* the observation record of a behaviour that does not follow the observations
NoObservation == [base |-> <<>>, policy |-> <<>>, policy_at |-> <<>>, failed |-> <<>>]

\* the observation record before the first fetch: per natural key, the content
\* hashes of the items of the key in the batch landed last; per policy, the time
\* of the page landed last that carried it (-1: none); per core.product id, whether
\* a classification of the row has failed
AllObservations ==
    [base |-> [k \in BaseKeys |-> {}],
     policy |-> [k \in {"P1", "P2", "", "None"} |-> {}],
     policy_at |-> [k \in {"P1", "P2", "", "None"} |-> -1],
     failed |-> [k \in 1..MaxClock |-> FALSE]]

\* the items of a batch are the most recent observations of their keys
ObserveBase(seen, batch) ==
    [k \in DOMAIN seen |->
        LET items == { i \in batch : <<i.product_type, i.fin_prdt_cd>> = k }
        IN IF items = {} THEN seen[k] ELSE { BaseContentHash(i.payload) : i \in items }]

\* 02_stg_base.py process_one_type: one batch, inserted and committed
LandBase(pt, batch) ==
    /\ pc = "idle"
    /\ clock < horizon
    /\ \A i \in batch : i.product_type = pt
    /\ LET rows == { BaseLandingRow(i, clock + 1) : i \in batch }
           new  == InsertOnConflictDoNothing(baseLanding, rows)
       IN /\ Cardinality(new) <= MaxBaseRows
          /\ baseLanding' = new
          /\ synced' = IF new = baseLanding THEN synced ELSE synced \ {pt}
    /\ clock' = clock + 1
    /\ observed' = [observed EXCEPT !.base = ObserveBase(observed.base, batch)]
    /\ UNCHANGED <<optLanding, product, productOption, specialCondition,
                   productSeq, optionSeq, pc, txn, horizon, runs, polVars, ingest>>

\* 03_stg_option.py process_one_type: one batch, inserted and committed
LandOption(pt, batch) ==
    /\ pc = "idle"
    /\ clock < horizon
    /\ \A i \in batch : i.product_type = pt
    /\ LET rows == { OptLandingRow(i, clock + 1) : i \in batch }
           new  == InsertOnConflictDoNothing(optLanding, rows)
       IN /\ Cardinality(new) <= MaxOptRows
          /\ optLanding' = new
          /\ synced' = IF new = optLanding THEN synced ELSE synced \ {pt}
    /\ clock' = clock + 1
    /\ UNCHANGED <<baseLanding, product, productOption, specialCondition,
                   productSeq, optionSeq, pc, txn, horizon, runs, polVars, ingest, observed>>

-----------------------------------------------------------------------------
(* core.product: BASE close / insert / touch *)

NullHash == <<>>

NoTxn(status) ==
    [status |-> status, product_type |-> NULL, now |-> NullTs,
     changed |-> {}, saved |-> <<>>, opt_counts |-> <<0, 0, 0>>, calls |-> {}, failed |-> {}]

\* the rows of the landing table the candidates CTE reads
BaseRowsOf(pt) == { b \in baseLanding : b.product_type = pt }

\* PARTITION BY b.product_type, b.ext_source, b.fin_prdt_cd
BasePartition(b) == <<b.product_type, b.ext_source, b.fin_prdt_cd>>

\* the ordering without its first key: ORDER BY b.run_ts DESC
BaseBeforeByRunTs(a, b) == a.run_ts > b.run_ts

\* ORDER BY to_date(COALESCE(b.dcls_month,'190001'),'YYYYMM') DESC, b.run_ts DESC:
\* a sorts strictly before b
BaseBefore(a, b) ==
    \/ ToDate(a.payload.dcls_month) > ToDate(b.payload.dcls_month)
    \/ /\ ToDate(a.payload.dcls_month) = ToDate(b.payload.dcls_month)
       /\ a.run_ts > b.run_ts

\* the rows that ROW_NUMBER() may number 1 in the partition of b
BaseFirstRows(pt, k) ==
    { b \in BaseRowsOf(pt) :
        /\ BasePartition(b) = k
        /\ \A o \in BaseRowsOf(pt) : BasePartition(o) = k => ~BaseBefore(o, b) }

\* candidates WHERE rn = 1: one row per partition; rows that tie in the ORDER BY
\* are numbered in an order the statement does not fix
BaseCandidateSets(pt) ==
    LET keys == { BasePartition(b) : b \in BaseRowsOf(pt) }
    IN { { f[k] : k \in keys } :
           f \in { g \in [keys -> BaseRowsOf(pt)] :
                     \A k \in keys : g[k] \in BaseFirstRows(pt, k) } }

\* p.is_current AND p.product_type = c.product_type AND p.ext_source = c.ext_source
\* AND p.ext_id = c.ext_id
BaseJoin(p, c) ==
    /\ p.is_current
    /\ p.product_type = c.product_type
    /\ p.ext_source = c.ext_source
    /\ p.ext_id = c.fin_prdt_cd

\* core.product without uq_product_current
NoUniqueIndex(rows) == FALSE

\* CREATE UNIQUE INDEX uq_product_current ON core.product(ext_source, ext_id) WHERE is_current
UqProductCurrentViolated(rows) ==
    \E a, b \in rows :
        /\ a.id # b.id
        /\ a.is_current /\ b.is_current
        /\ a.ext_source = b.ext_source /\ a.ext_id = b.ext_id

NewProductRow(c, id, now) ==
    [id |-> id, product_type |-> c.product_type, ext_source |-> c.ext_source,
     ext_id |-> c.fin_prdt_cd, payload |-> c.payload, content_hash |-> c.content_hash,
     is_current |-> TRUE, valid_from_ts |-> now, valid_to_ts |-> NullTs,
     options_set_hash |-> NullHash, options_count |-> NullInt, updated_at |-> now]

\* the ids the BIGSERIAL gives the rows of one INSERT ... SELECT: the statement has no
\* ORDER BY, so the rows take the next ids in any order
NumberRows(rows, n) ==
    { { <<n + f[r], r>> : r \in rows } :
        f \in { g \in [rows -> 1..Cardinality(rows)] :
                  \A x, y \in rows : x # y => g[x] # g[y] } }

\* the close without valid_to_ts: SET is_current = FALSE, updated_at = now()
CloseRowNoStamp(r, now) == [r EXCEPT !.is_current = FALSE, !.updated_at = now]

\* SET is_current = FALSE, valid_to_ts = now(), updated_at = now()
CloseRow(r, now) ==
    [r EXCEPT !.is_current = FALSE, !.valid_to_ts = now, !.updated_at = now]

\* SET updated_at = now()
TouchRow(r, now) == [r EXCEPT !.updated_at = now]

\* the insert as an overwrite of the key's rows, in the manner of upsert_policy
ReplaceProducts(rows, numbered, now) ==
    { r \in rows : \A x \in numbered :
                     r.ext_source # x[2].ext_source \/ r.ext_id # x[2].fin_prdt_cd }
        \cup { NewProductRow(x[2], x[1], now) : x \in numbered }

\* the insert as a reopening: a closed row with the key and content of a candidate is
\* made current again, and only the other candidates get new rows
ReopenProducts(rows, numbered, now) ==
    LET Returns(r, x) == /\ ~r.is_current
                         /\ r.ext_source = x[2].ext_source /\ r.ext_id = x[2].fin_prdt_cd
                         /\ r.content_hash = x[2].content_hash
    IN  { IF \E x \in numbered : Returns(r, x)
            THEN [r EXCEPT !.is_current = TRUE, !.valid_to_ts = NullTs, !.updated_at = now]
            ELSE r : r \in rows }
          \cup { NewProductRow(x[2], x[1], now) :
                   x \in { y \in numbered : ~\E r \in rows : Returns(r, y) } }

\* INSERT INTO core.product (...) SELECT ..., TRUE, now(), now(), now() FROM need_insert
InsertProducts(rows, numbered, now) ==
    rows \cup { NewProductRow(x[2], x[1], now) : x \in numbered }

\* the exception caught and logged inside the pass: what was written so far is committed
CommitPartial ==
    /\ product' = product
    /\ productOption' = productOption
    /\ specialCondition' = specialCondition
    /\ pc' = "idle"
    /\ txn' = NoTxn("aborted")

\* the exception leaves `with engine.begin()`: ROLLBACK (sequences are not rolled back)
Rollback ==
    /\ product' = txn.saved.product
    /\ productOption' = txn.saved.productOption
    /\ specialCondition' = txn.saved.specialCondition
    /\ pc' = "idle"
    /\ txn' = NoTxn("aborted")

\* run(): engine.begin(); upsert_for_type: conn.execute(BASE_CLOSE_SQL)
BaseClose(pt) ==
    /\ pc = "idle"
    /\ clock < horizon
    /\ clock' = clock + 1
    /\ \E cand \in BaseCandidateSets(pt) :
         LET now == clock + 1
             to_close == { p \in product :
                             \E c \in cand : BaseJoin(p, c)
                                             /\ p.content_hash # c.content_hash }
         IN product' = (product \ to_close) \cup { CloseRow(p, now) : p \in to_close }
    /\ txn' = [status |-> "open", product_type |-> pt, now |-> clock + 1,
               changed |-> {},
               saved |-> [product |-> product, productOption |-> productOption,
                          specialCondition |-> specialCondition],
               opt_counts |-> <<0, 0, 0>>, calls |-> {}, failed |-> {}]
    /\ pc' = "insert"
    /\ UNCHANGED <<baseLanding, optLanding, productOption, specialCondition,
                   productSeq, optionSeq, synced, horizon, runs, polVars, ingest, observed>>

\* conn.execute(BASE_INSERT_SQL); changed_product_ids.extend(inserted ids)
BaseInsert ==
    /\ pc = "insert"
    /\ \E cand \in BaseCandidateSets(txn.product_type) :
         LET need_insert ==
                 { c \in cand :
                     \/ \A p \in product : ~BaseJoin(p, c)
                     \/ \E p \in product : BaseJoin(p, c)
                                           /\ p.content_hash # c.content_hash }
         IN \E numbered \in NumberRows(need_insert, productSeq) :
            LET result == InsertProducts(product, numbered, txn.now)
            IN
            /\ productSeq' = productSeq + Cardinality(need_insert)
            /\ IF UqProductCurrentViolated(result)
               THEN Rollback
               ELSE /\ product' = result
                    /\ txn' = [txn EXCEPT !.changed = { x[1] : x \in numbered }]
                    /\ pc' = "touch"
                    /\ UNCHANGED <<productOption, specialCondition>>
    /\ UNCHANGED <<baseLanding, optLanding, optionSeq, clock, synced, horizon, runs, polVars, ingest, observed>>

\* conn.execute(BASE_TOUCH_SQL)
BaseTouch ==
    /\ pc = "touch"
    /\ \E cand \in BaseCandidateSets(txn.product_type) :
         LET touched == { p \in product :
                            \E c \in cand : BaseJoin(p, c)
                                            /\ p.content_hash = c.content_hash }
         IN product' = (product \ touched) \cup { TouchRow(p, txn.now) : p \in touched }
    /\ pc' = "option"
    /\ UNCHANGED <<baseLanding, optLanding, productOption, specialCondition,
                   productSeq, optionSeq, clock, txn, synced, horizon, runs, polVars, ingest, observed>>

-----------------------------------------------------------------------------
(* core.product_option: OPTION upsert *)

\* SQL a <> b: not true when either side is NULL
SqlNe(a, b) == a # NULL /\ b # NULL /\ a # b

\* SQL a = b: not true when either side is NULL
SqlEq(a, b) == a # NULL /\ b # NULL /\ a = b

\* the option key without COALESCE: NULLIF(payload->>'save_trm','')::int,
\* payload->>'intr_rate_type', payload->>'rsrv_type'
RawOptKey(payload) ==
    <<ParseInt(payload.save_trm), payload.intr_rate_type, payload.rsrv_type>>

\* COALESCE(NULLIF(payload->>'save_trm','')::int, -1), COALESCE(payload->>'intr_rate_type',''),
\* COALESCE(payload->>'rsrv_type',''): the normalized option key of opt_raw, of the
\* joins of closed / inserted / touched and of uq_option_current
OptKey(payload) ==
    <<CoalesceInt(ParseInt(payload.save_trm), -1),
      Coalesce(payload.intr_rate_type, ""),
      Coalesce(payload.rsrv_type, "")>>

\* base_now: the current products of the type
BaseNow(pt) == { p \in product : p.is_current /\ p.product_type = pt }

\* opt_raw: option landing rows joined to the current product of their key
OptRaw(pt) ==
    { [o |-> o, product_id |-> bn.id, key |-> OptKey(o.payload),
       eff_month |-> Coalesce(o.payload.dcls_month, bn.payload.dcls_month)] :
        <<o, bn>> \in
          { x \in optLanding \X BaseNow(pt) :
              /\ x[1].product_type = pt
              /\ x[2].ext_source = x[1].ext_source
              /\ x[2].ext_id = x[1].fin_prdt_cd
              /\ \/ x[1].payload.dcls_month = NULL
                 \/ SqlEq(x[1].payload.dcls_month, x[2].payload.dcls_month) } }

\* PARTITION BY product_id, k_save_trm, k_intr_rate_type, k_rsrv_type
OptPartition(r) == <<r.product_id, r.key>>

\* ORDER BY to_date(COALESCE(eff_month,'190001'),'YYYYMM') DESC, run_ts DESC, content_hash DESC
OptBefore(a, b) ==
    \/ ToDate(a.eff_month) > ToDate(b.eff_month)
    \/ /\ ToDate(a.eff_month) = ToDate(b.eff_month)
       /\ \/ a.o.run_ts > b.o.run_ts
          \/ /\ a.o.run_ts = b.o.run_ts
             /\ a.o.content_hash > b.o.content_hash

\* opt_candidates: the rows of opt_canon with rn = 1
OptCandidateSets(pt) ==
    LET raw  == OptRaw(pt)
        keys == { OptPartition(r) : r \in raw }
        first(k) == { r \in raw : /\ OptPartition(r) = k
                                  /\ \A q \in raw : OptPartition(q) = k => ~OptBefore(q, r) }
    IN { { f[k] : k \in keys } :
           f \in { g \in [keys -> raw] : \A k \in keys : g[k] \in first(k) } }

\* po.is_current AND po.product_id = oc.product_id AND the three COALESCEd key columns equal
OptJoin(po, oc) ==
    /\ po.is_current
    /\ po.product_id = oc.product_id
    /\ OptKey(po.payload) = oc.key

\* CREATE UNIQUE INDEX uq_option_current ON core.product_option(product_id,
\*   COALESCE(save_trm,-1), COALESCE(intr_rate_type,''), COALESCE(rsrv_type,'')) WHERE is_current
UqOptionCurrentViolated(rows) ==
    \E a, b \in rows :
        /\ a.id # b.id
        /\ a.is_current /\ b.is_current
        /\ a.product_id = b.product_id
        /\ OptKey(a.payload) = OptKey(b.payload)

NewOptionRow(oc, id, now) ==
    [id |-> id, product_id |-> oc.product_id, payload |-> oc.o.payload,
     content_hash |-> oc.o.content_hash, is_current |-> TRUE,
     valid_from_ts |-> now, valid_to_ts |-> NullTs, updated_at |-> now]

\* conn.execute(OPTION_UPSERT_SQL): closed, inserted and touched read the rows as they
\* were before the statement
OptionUpsert ==
    /\ pc = "option"
    /\ \E cand \in OptCandidateSets(txn.product_type) :
         LET closed == { po \in productOption :
                           \E oc \in cand : OptJoin(po, oc)
                                            /\ po.content_hash # oc.o.content_hash }
             need   == { oc \in cand :
                           \/ \A cur \in productOption : ~OptJoin(cur, oc)
                           \/ \E cur \in productOption :
                                OptJoin(cur, oc) /\ cur.content_hash # oc.o.content_hash }
             touched == { po \in productOption :
                            \E oc \in cand : OptJoin(po, oc)
                                             /\ po.content_hash = oc.o.content_hash }
         IN \E numbered \in NumberRows(need, optionSeq) :
            LET inserted == { NewOptionRow(x[2], x[1], txn.now) : x \in numbered }
                result == (productOption \ (closed \cup touched))
                          \cup { CloseRow(po, txn.now) : po \in closed }
                          \cup { TouchRow(po, txn.now) : po \in touched }
                          \cup inserted
            IN
            /\ optionSeq' = optionSeq + Cardinality(need)
            /\ IF UqOptionCurrentViolated(result)
               THEN Rollback
               ELSE /\ productOption' = result
                    /\ txn' = [txn EXCEPT !.opt_counts =
                                 <<Cardinality(closed), Cardinality(inserted),
                                   Cardinality(touched)>>]
                    /\ pc' = "recompute"
                    /\ UNCHANGED <<product, specialCondition>>
    /\ UNCHANGED <<baseLanding, optLanding, productSeq, clock, synced, horizon, runs, polVars, ingest, observed>>

-----------------------------------------------------------------------------
(* Option set hash / count *)

\* TO_CHAR(NULLIF(payload->>'intr_rate','')::numeric, 'FM999999999.00000'), '' when NULL
FormatRate(s) ==
    CASE s = NULL  -> ""
      [] s = ""    -> ""
      [] s = "3.0" -> "3.00000"
      [] s = "3.5" -> "3.50000"

\* format('%s|%s|%s|%s|%s', ...) of one current option; intr_rate2 is absent from the items
OptionLine(po) ==
    <<CoalesceInt(ParseInt(po.payload.save_trm), -1),
      Coalesce(po.payload.intr_rate_type, ""),
      Coalesce(po.payload.rsrv_type, ""),
      FormatRate(po.payload.intr_rate), "">>

\* rank of a text value in ORDER BY ... ASC (NULLS LAST)
TextRank(s) ==
    CASE s = "" -> 0 [] s = "3.0" -> 1 [] s = "3.5" -> 2 [] s = "S" -> 3 [] s = NULL -> 4

\* string_agg without its ORDER BY, the rows taken in the order of their insertion
OptionOrderKeyById(po) == <<po.id>>

\* ORDER BY po.save_trm, po.intr_rate_type, po.rsrv_type, po.intr_rate, po.intr_rate2
OptionOrderKey(po) ==
    <<IF ParseInt(po.payload.save_trm).null THEN 1000 ELSE ParseInt(po.payload.save_trm).val,
      TextRank(po.payload.intr_rate_type),
      TextRank(po.payload.rsrv_type),
      TextRank(IF po.payload.intr_rate = "" THEN NULL ELSE po.payload.intr_rate)>>

RECURSIVE LexLess(_, _)
LexLess(a, b) ==
    IF a = <<>> THEN FALSE
    ELSE \/ Head(a) < Head(b)
         \/ Head(a) = Head(b) /\ LexLess(Tail(a), Tail(b))

RECURSIVE StringAgg(_)
\* string_agg(format(...), ';' ORDER BY ...) over a set of option rows
StringAgg(rows) ==
    IF rows = {} THEN <<>>
    ELSE LET first == CHOOSE r \in rows :
                        \A q \in rows : ~LexLess(OptionOrderKey(q), OptionOrderKey(r))
         IN <<OptionLine(first)>> \o StringAgg(rows \ {first})

\* encode(digest(string_agg(...), 'sha256'), 'hex'): one digest per aggregated string
OptionsSetHash(rows) == StringAgg(rows)

CurrentOptionsOf(pid) == { po \in productOption : po.is_current /\ po.product_id = pid }

\* UPDATE core.product p SET options_set_hash = a.options_set_hash,
\*   options_count = a.options_count, updated_at = now() FROM agg a
AggUpdate(p, opts, now) ==
    [p EXCEPT !.options_set_hash = OptionsSetHash(opts),
              !.options_count = IntVal(Cardinality(opts)),
              !.updated_at = now]

\* the recomputation without its zero-option statement
ZeroUpdateSkipped(p, now) == p

\* UPDATE core.product p SET options_set_hash = NULL, options_count = 0,
\*   updated_at = now() FROM zero z
ZeroUpdate(p, now) ==
    [p EXCEPT !.options_set_hash = NullHash, !.options_count = IntVal(0),
              !.updated_at = now]

\* conn.execute(RECOMPUTE_OPTION_SET_HASH_SQL): the agg UPDATE, then the zero-option UPDATE
Recompute ==
    /\ pc = "recompute"
    /\ LET base_now == BaseNow(txn.product_type)
           agg  == { p \in base_now : CurrentOptionsOf(p.id) # {} }
           zero == { p \in base_now : CurrentOptionsOf(p.id) = {} }
       IN product' = (product \ base_now)
             \cup { AggUpdate(p, CurrentOptionsOf(p.id), txn.now) : p \in agg }
             \cup { ZeroUpdate(p, txn.now) : p \in zero }
    /\ pc' = "analyze"
    /\ UNCHANGED <<baseLanding, optLanding, productOption, specialCondition,
                   productSeq, optionSeq, clock, txn, synced, horizon, runs, polVars, ingest, observed>>

-----------------------------------------------------------------------------
(* Special-condition analysis *)

GeminiModes == {"skip", "unavailable", "on"}

\* the BOOLEAN columns of core.product_special_condition
FlagNames ==
    {"is_non_face_to_face", "is_bank_app", "is_salary_linked", "is_pension_linked",
     "is_utility_linked", "is_card_usage", "is_first_transaction", "is_checking_account",
     "is_redeposit"}

\* what model.generate_content + json.loads can yield: an exception, the flags set to true,
\* or a JSON value that is no boolean for one of the flags
GeminiResponses ==
    { [ok |-> FALSE, flags |-> {}], [ok |-> TRUE, flags |-> {}],
      [ok |-> TRUE, flags |-> {"is_bank_app"}],
      [ok |-> TRUE, flags |-> {"is_card_usage: [1]"}] }

\* conn.execute of save_special_condition raises: a value no BOOLEAN column takes
SaveRaises(flags) == \E f \in flags : f \notin FlagNames

\* str.strip()
Strip(s) == IF s = " " THEN "" ELSE s

\* analyze_special_condition: None is [ok |-> FALSE]
AnalyzeSpecialCondition(gemini, spcl_cnd, response) ==
    IF gemini = "unavailable" THEN [ok |-> FALSE, flags |-> {}]
    ELSE IF spcl_cnd = "" \/ Strip(spcl_cnd) = "" THEN [ok |-> TRUE, flags |-> {}]
    ELSE response

\* whether analyze_special_condition reaches model.generate_content
CallsGemini(gemini, spcl_cnd) ==
    /\ gemini # "unavailable"
    /\ ~(spcl_cnd = "" \/ Strip(spcl_cnd) = "")

\* save_special_condition: INSERT ... ON CONFLICT (product_id) DO UPDATE
SaveSpecialCondition(table, product_id, flags) ==
    { r \in table : r.product_id # product_id }
        \cup { [product_id |-> product_id, flags |-> flags] }

\* analyze_changed_products(conn, changed_product_ids, skip_gemini)
Analyze(gemini) ==
    /\ pc = "analyze"
    /\ LET products == IF gemini = "skip" THEN {}
                       ELSE { p \in product : /\ p.id \in txn.changed
                                              /\ p.is_current
                                              /\ p.payload.spcl_cnd # NULL
                                              /\ p.payload.spcl_cnd # "" }
       IN \E resp \in [products -> GeminiResponses] :
            LET cond(p) == AnalyzeSpecialCondition(gemini, p.payload.spcl_cnd, resp[p])
                saved == { p \in products : cond(p).ok }
            IN IF \E p \in saved : SaveRaises(cond(p).flags)
               THEN Rollback /\ UNCHANGED observed
               ELSE /\ observed' = [observed EXCEPT !.failed =
                                      [k \in DOMAIN @ |->
                                          @[k] \/ \E p \in products \ saved : p.id = k]]
                    /\ specialCondition' =
                         { r \in specialCondition : \A p \in saved : r.product_id # p.id }
                           \cup { [product_id |-> p.id, flags |-> cond(p).flags] : p \in saved }
                    /\ txn' = [txn EXCEPT
                                 !.calls = { p.id : p \in { q \in products :
                                                CallsGemini(gemini, q.payload.spcl_cnd) } },
                                 !.failed = { p.id : p \in products \ saved }]
                    /\ pc' = "commit"
                    /\ UNCHANGED <<product, productOption>>
    /\ UNCHANGED <<baseLanding, optLanding, productSeq, optionSeq, clock, synced,
                   horizon, runs, polVars, ingest>>

\* leaving `with engine.begin() as conn` without an exception: COMMIT
Commit ==
    /\ pc = "commit"
    /\ pc' = "idle"
    /\ synced' = synced \cup {txn.product_type}
    /\ txn' = NoTxn("committed")
    /\ UNCHANGED <<baseLanding, optLanding, product, productOption, specialCondition,
                   productSeq, optionSeq, clock, horizon, runs, polVars, ingest, observed>>

\* the process ends inside `with engine.begin() as conn` (killed, connection lost), after
\* any statement of the pass: the transaction is never committed
Interrupt ==
    /\ pc # "idle"
    /\ product' = txn.saved.product
    /\ productOption' = txn.saved.productOption
    /\ specialCondition' = txn.saved.specialCondition
    /\ pc' = "idle"
    /\ txn' = NoTxn("interrupted")
    /\ UNCHANGED <<baseLanding, optLanding, productSeq, optionSeq, clock, synced,
                   horizon, runs, polVars, ingest, observed>>

-----------------------------------------------------------------------------
(* policy/04_stg_to_core.py: association syncs *)

MaxSyncs == 2

\* the association tables of the seven syncs, with the field of NormalizedPolicy each reads
AssocTables ==
    {"policy_category", "policy_eligibility_education", "policy_eligibility_job_status",
     "policy_eligibility_major", "policy_eligibility_specialization",
     "policy_keyword", "policy_region"}

PolicyIds == {"pol1", "pol2"}

\* the tag lists extract_list_from_payload yields for the items; "Z" is in no master table
TagLists == { <<"A", "B">>, <<"B", "C", "Z">>, <<"A", "A">>, <<>> }

\* load_*_id_map: name / code / zip_code -> id of the master table
MasterMap(table) == [t \in {"A", "B", "C"} |-> CASE t = "A" -> 1 [] t = "B" -> 2 [] t = "C" -> 3]

\* map.get(tag): 0 stands for None
MapGet(table, tag) ==
    IF tag \in DOMAIN MasterMap(table) THEN MasterMap(table)[tag] ELSE 0

\* the loop without `if rid:`: a pair for every tag, resolved or not
TargetPairsUnfiltered(table, id, tags) ==
    [i \in DOMAIN tags |-> <<id, MapGet(table, tags[i])>>]

\* the loop over the tags of one item: the target_pairs it appends, in order (`if rid:`)
RECURSIVE TargetPairsOf(_, _, _)
TargetPairsOf(table, id, tags) ==
    IF tags = <<>> THEN <<>>
    ELSE (IF MapGet(table, Head(tags)) # 0
          THEN << <<id, MapGet(table, Head(tags))>> >> ELSE <<>>)
         \o TargetPairsOf(table, id, Tail(tags))

\* the tags of one item the loop adds to unknown
UnknownOf(table, tags) ==
    { tags[i] : i \in { j \in DOMAIN tags : MapGet(table, tags[j]) = 0 } }

SeqToSet(q) == { q[i] : i \in DOMAIN q }

HasDuplicates(q) == \E i, j \in DOMAIN q : i # j /\ q[i] = q[j]

\* the rows of tmp_policy_<x>: the target pairs of all items
TmpTarget(table, items) ==
    UNION { SeqToSet(TargetPairsOf(table, it.id, it.tags)) : it \in items }

\* INSERT INTO core.<x> SELECT t.* FROM tmp_<x> t LEFT JOIN core.<x> pe ON ... WHERE pe.policy_id IS NULL:
\* the rows it inserts for one item, one per tmp row without a match
InsertRowsOf(table, existing, it) ==
    SelectSeq(TargetPairsOf(table, it.id, it.tags), LAMBDA pr : pr \notin existing)

\* the uniqueness constraint on (policy_id, ref_id) of an association table
AssocUniqueViolated(table, existing, items) ==
    \E it \in items : HasDuplicates(InsertRowsOf(table, existing, it))

\* the delete without USING tmp_policy: every row that is not a target row
DeleteRowsUnrestricted(table, rows, items) ==
    { pe \in rows : pe \notin TmpTarget(table, items) }

\* DELETE FROM core.<x> pe USING tmp_policy p WHERE pe.policy_id = p.policy_id
\*   AND NOT EXISTS (SELECT 1 FROM tmp_<x> t WHERE t.policy_id = pe.policy_id AND t.<ref> = pe.<ref>)
DeleteRows(table, rows, items) ==
    { pe \in rows : /\ \E it \in items : it.id = pe[1]
                    /\ pe \notin TmpTarget(table, items) }

NoSync ==
    [table |-> NULL, items |-> {}, before |-> {}, error |-> FALSE,
     inserted |-> 0, deleted |-> 0, unknown |-> {}]

\* the non-empty item lists run_etl passes: one NormalizedPolicy per changed policy id
ItemLists ==
    { { [id |-> i, tags |-> f[i]] : i \in ids } :
        <<ids, f>> \in { x \in (SUBSET PolicyIds \ {{}}) \X [PolicyIds -> TagLists] : TRUE } }

\* sync_policy_category / _eligibility_education / _eligibility_job_status /
\* _eligibility_major / _eligibility_specialization / sync_policy_keywords / sync_policy_region
SyncPolicyAssoc(table, items) ==
    /\ pc = "idle"
    /\ lastSync.n < MaxSyncs
    /\ LET existing == assoc[table]
           inserted == UNION { SeqToSet(InsertRowsOf(table, existing, it)) : it \in items }
           afterIns == existing \cup inserted
           deleted  == DeleteRows(table, afterIns, items)
           unknown  == UNION { UnknownOf(table, it.tags) : it \in items }
       IN IF AssocUniqueViolated(table, existing, items)
          THEN \* the INSERT raises: the connection closes without commit
               /\ assoc' = assoc
               /\ lastSync' = [NoSync EXCEPT !.table = table, !.items = items,
                                 !.before = existing, !.error = TRUE] @@ [n |-> lastSync.n + 1]
          ELSE /\ assoc' = [assoc EXCEPT ![table] = afterIns \ deleted]
               /\ lastSync' = [table |-> table, items |-> items, before |-> existing,
                               error |-> FALSE, inserted |-> Cardinality(inserted),
                               deleted |-> Cardinality(deleted), unknown |-> unknown,
                               n |-> lastSync.n + 1]
    /\ UNCHANGED <<finVars, ingest, observed, orch, etl, stgVars>>

-----------------------------------------------------------------------------
(* policy pipeline: 02_stg_landing.py, 03_stg_refresh_current.py,           *)
(* fetch_changed_rows / normalize_row / upsert_policy of 04_stg_to_core.py, *)
(* 05_update_policy_status.py.  A JSON object is the sequence of its        *)
(* <<field, value>> pairs in the order received; every value is a string.   *)
(* Dates are the days 1..MaxDay, NullDate is SQL NULL of a date column.     *)

MaxPolClock == 2
MaxPage == 2
MaxLandingRows == 2
MaxLookback == 1
MaxDay == 3

MaxConcurrentTicks == 3
InactiveAfterDays == 1

NullDate == 0

\* dict.get(k): None when the field is absent
ItemGet(item, k) ==
    IF \E i \in DOMAIN item : item[i][1] = k
    THEN item[CHOOSE i \in DOMAIN item : item[i][1] = k][2]
    ELSE NULL

\* dict.get(k, default)
ItemGetOr(item, k, default) ==
    IF \E i \in DOMAIN item : item[i][1] = k THEN ItemGet(item, k) ELSE default

PolicyItem(no, cd, ymd, cnt) ==
    << <<"plcyNo", no>>, <<"aplyPrdSeCd", cd>>, <<"aplyYmd", ymd>>, <<"inqCnt", cnt>> >>

Reversed(item) == [i \in DOMAIN item |-> item[Len(item) + 1 - i]]

WithoutField(item, k) == SelectSeq(item, LAMBDA f : f[1] # k)

\* the leaf items the RAW pages carry
PolicyItems ==
    { PolicyItem("P1", "0057001", "2 ~ 3", "10"),
      PolicyItem("P1", "0057001", "2 ~ 3", "11"),
      Reversed(PolicyItem("P1", "0057001", "2 ~ 3", "10")),
      PolicyItem("P1", "0057002", "", "10"),
      PolicyItem("P2", "0057001", "3 ~ 1", "10"),
      PolicyItem("P2", "0057003", "", "10"),
      PolicyItem("P2", "", "2 ~ 3", "10"),
      WithoutField(PolicyItem("P1", "0057001", "2 ~", "10"), "plcyNo") }

\* extract_items_from_payload: the pages of one to MaxPage items
PolicyPages ==
    UNION { [1..n -> PolicyItems] : n \in 1..MaxPage }

PAGE_META ==
    {"totCount", "pageNo", "pageNum", "pageIndex", "pageSize", "nowTs", "requestId", "timestamp"}

POLICY_NOISE == {"inqCnt"}

DROP_FIELDS == PAGE_META \cup POLICY_NOISE

\* the byte order of the field names
KeyRank(k) ==
    CASE k = "aplyPrdSeCd" -> 1
      [] k = "aplyYmd" -> 2
      [] k = "inqCnt" -> 3
      [] k = "pageNo" -> 4
      [] k = "plcyNo" -> 5

\* orjson.dumps(..., option=OPT_SORT_KEYS): the pairs in the order of their keys
SortKeys(item) ==
    [i \in DOMAIN item |->
        CHOOSE f \in SeqToSet(item) :
            Cardinality({ g \in SeqToSet(item) : KeyRank(g[1]) < KeyRank(f[1]) }) = i - 1]

canonical_bytes(item) ==
    SortKeys(SelectSeq(item, LAMBDA f : f[1] \notin DROP_FIELDS))

\* sha256 is taken as injective: the digest is the canonical serialization
record_hash(item) == canonical_bytes(item)

\* str(v)
PyStr(v) == IF v = NULL THEN "None" ELSE v

pick_policy_id(item) == PyStr(ItemGet(item, "plcyNo"))

PolicyLandingRow(item, now) ==
    [policy_id |-> pick_policy_id(item), record_hash |-> record_hash(item),
     raw_json |-> item, ingested_at |-> now]

\* primary key (policy_id, record_hash)
PolicyLandingKey(l) == <<l.policy_id, l.record_hash>>

\* the executemany of one page: insert ... on conflict do nothing, item by item
RECURSIVE LandItems(_, _, _)
LandItems(landing, items, now) ==
    IF items = <<>> THEN landing
    ELSE LET row == PolicyLandingRow(Head(items), now)
         IN LandItems(IF \E l \in landing : PolicyLandingKey(l) = PolicyLandingKey(row)
                      THEN landing ELSE landing \cup {row},
                      Tail(items), now)

\* the items of a page are the most recent observations of their policies
ObservePolicy(seen, page) ==
    [k \in DOMAIN seen |->
        LET items == { i \in SeqToSet(page) : pick_policy_id(i) = k }
        IN IF items = {} THEN seen[k] ELSE { record_hash(i) : i \in items }]

\* the time a page is landed is the time of the most recent observation of its policies
ObservePolicyAt(seen, page, now) ==
    [k \in DOMAIN seen |->
        IF \E i \in SeqToSet(page) : pick_policy_id(i) = k THEN now ELSE seen[k]]

\* upsert_landing, one page and its commit
UpsertLanding(page) ==
    /\ Cardinality(LandItems(policyLanding, page, polClock)) <= MaxLandingRows
    /\ policyLanding' = LandItems(policyLanding, page, polClock)
    /\ observed' = [observed EXCEPT
                       !.policy = ObservePolicy(observed.policy, page),
                       !.policy_at = ObservePolicyAt(observed.policy_at, page, polClock)]
    /\ UNCHANGED <<finVars, ingest, orch, etl, assoc, lastSync, policyCurrent, policy, polClock, statusRun>>

\* select distinct on (policy_id) ... order by policy_id, ingested_at desc:
\* the rows a policy can contribute, one of those with the greatest ingested_at
LatestOf(rows, pid) ==
    { l \in rows : /\ l.policy_id = pid
                   /\ \A m \in rows : m.policy_id = pid => m.ingested_at <= l.ingested_at }

\* every result the distinct on can have: one latest row per policy_id of rows
DistinctOnLatest(rows) ==
    LET pids == { l.policy_id : l \in rows }
    IN { { f[p] : p \in pids } :
           f \in { g \in [pids -> rows] : \A p \in pids : g[p] \in LatestOf(rows, p) } }

SetMin(S) == CHOOSE x \in S : \A y \in S : x <= y

SetMax(S) == CHOOSE x \in S : \A y \in S : y <= x

Least(a, b) == IF a <= b THEN a ELSE b

\* the landing rows of the lookback window; LOOKBACK_HOURS = 0 scans the whole table
LookbackWindow(lookback, now) ==
    IF lookback > 0 THEN { l \in policyLanding : l.ingested_at >= now - lookback }
    ELSE policyLanding

\* tmp_first_seen
FirstSeen(pid) == SetMin({ l.ingested_at : l \in { m \in policyLanding : m.policy_id = pid } })

\* insert into stg.youthpolicy_current ... on conflict (policy_id) do update, for one tmp_latest row
CurrentUpsert(current, tl, now) ==
    LET old == { c \in current : c.policy_id = tl.policy_id }
    IN IF old = {}
       THEN [policy_id |-> tl.policy_id, record_hash |-> tl.record_hash,
             first_seen_at |-> FirstSeen(tl.policy_id), last_seen_at |-> now,
             is_active |-> TRUE]
       ELSE LET c == CHOOSE c \in old : TRUE
            IN [c EXCEPT !.last_seen_at = now, !.is_active = TRUE,
                         !.record_hash = IF c.record_hash # tl.record_hash
                                         THEN tl.record_hash ELSE c.record_hash,
                         !.first_seen_at = Least(c.first_seen_at, FirstSeen(tl.policy_id))]

\* a sweep that deletes the stale rows
InactiveSweepDelete(current, now) ==
    { c \in current : ~(c.last_seen_at < now - InactiveAfterDays) }

\* update stg.youthpolicy_current set is_active = false where last_seen_at < inactive_cutoff
InactiveSweep(current, now) ==
    { IF c.last_seen_at < now - InactiveAfterDays THEN [c EXCEPT !.is_active = FALSE] ELSE c :
        c \in current }

\* refresh_current
RefreshCurrent(lookback) ==
    /\ \E tmp_latest \in DistinctOnLatest(LookbackWindow(lookback, polClock)) :
         LET seen     == { tl.policy_id : tl \in tmp_latest }
             upserted == { CurrentUpsert(policyCurrent, tl, polClock) : tl \in tmp_latest }
             kept     == { c \in policyCurrent : c.policy_id \notin seen }
         IN /\ policyCurrent' = InactiveSweep(kept \cup upserted, polClock)
            /\ policyCurrent' # policyCurrent
    /\ UNCHANGED <<finVars, ingest, observed, orch, etl, assoc, lastSync, policyLanding, policy, polClock, statusRun>>

\* aplyYmd.split("~"), parts stripped
SplitTilde(s) ==
    CASE s = "2 ~ 3" -> <<"2", "3">>
      [] s = "3 ~ 1" -> <<"3", "1">>
      [] s = "2 ~" -> <<"2", "">>
      [] OTHER -> <<s>>

\* datetime.strptime(s, "%Y%m%d").date(); NullDate stands for the ValueError
Strptime(s) ==
    CASE s = "1" -> 1
      [] s = "2" -> 2
      [] s = "3" -> 3
      [] OTHER -> NullDate

parse_period_field(aplyYmd) ==
    IF aplyYmd = NULL THEN <<NullDate, NullDate>>
    ELSE LET parts == SplitTilde(aplyYmd)
         IN IF Len(parts) # 2 THEN <<NullDate, NullDate>>
            ELSE IF Strptime(parts[1]) = NullDate \/ Strptime(parts[2]) = NullDate
                 THEN <<NullDate, NullDate>>
                 ELSE <<Strptime(parts[1]), Strptime(parts[2])>>

set_apply_type(aplyPrdSeCd) ==
    CASE aplyPrdSeCd = "0057001" -> "PERIODIC"
      [] aplyPrdSeCd = "0057002" -> "ALWAYS_OPEN"
      [] aplyPrdSeCd = "0057003" -> "CLOSED"
      [] OTHER -> "UNKNOWN"

\* normalize_row, the columns of core.policy the status depends on, the payload and the
\* content hash; status is not written
normalize_row(row) ==
    LET period == parse_period_field(ItemGetOr(row.raw_json, "aplyYmd", ""))
    IN [id |-> row.policy_id, content_hash |-> row.record_hash,
        apply_type |-> set_apply_type(ItemGetOr(row.raw_json, "aplyPrdSeCd", "")),
        apply_start |-> period[1], apply_end |-> period[2],
        payload |-> row.raw_json]

\* fetch_changed_rows: every result of the query, the current rows that are new or whose
\* hash differs from core.policy.content_hash, each with the raw_json of a latest landing row
fetch_changed_rows ==
    { { [policy_id |-> c.policy_id, record_hash |-> c.record_hash,
         raw_json |-> (CHOOSE l \in stg_l : l.policy_id = c.policy_id).raw_json] :
          c \in { c \in policyCurrent :
                    /\ \E l \in stg_l : l.policy_id = c.policy_id
                    /\ \A p \in policy : p.id = c.policy_id => c.record_hash # p.content_hash } } :
        stg_l \in DistinctOnLatest(policyLanding) }

\* INSERT INTO core.policy ... ON CONFLICT (id) DO UPDATE SET ...: status is in neither
\* column list, so a new row gets the column default and an updated row keeps its status
UpsertRow(rows, item) ==
    LET old == { p \in rows : p.id = item.id }
    IN IF old = {} THEN item @@ [status |-> NULL]
       ELSE item @@ [status |-> (CHOOSE p \in old : TRUE).status]

\* run_etl, steps 2 to 4: fetch_changed_rows, normalize_row, upsert_policy
UpsertPolicy ==
    /\ \E raw_rows \in fetch_changed_rows :
         LET items == { normalize_row(r) : r \in raw_rows }
         IN /\ items # {}
            /\ policy' = { p \in policy : \A it \in items : it.id # p.id }
                           \cup { UpsertRow(policy, it) : it \in items }
    /\ statusRun' = 0
    /\ UNCHANGED <<finVars, ingest, observed, orch, etl, assoc, lastSync, policyLanding, policyCurrent, polClock>>

\* the status rule before update_policy_status: PERIODIC is OPEN inside the period, else CLOSED
set_policy_status(apply_type, apply_start, apply_end, today) ==
    CASE apply_type = "CLOSED" -> "CLOSED"
      [] apply_type = "ALWAYS_OPEN" -> "OPEN"
      [] apply_type = "PERIODIC" /\ apply_start # NullDate /\ apply_end # NullDate ->
            IF apply_start <= today /\ today <= apply_end THEN "OPEN" ELSE "CLOSED"
      [] OTHER -> "UNKNOWN"

\* the CASE of the UPDATE; a comparison with SQL NULL is not true
PolicyStatus(apply_type, apply_start, apply_end, today) ==
    IF apply_type # NULL /\ apply_type = "ALWAYS_OPEN" THEN "OPEN"
    ELSE IF apply_type # NULL /\ apply_type = "CLOSED" THEN "CLOSED"
    ELSE IF apply_type # NULL /\ apply_type = "PERIODIC"
            /\ apply_start # NullDate /\ apply_end # NullDate
         THEN IF apply_start <= today /\ today <= apply_end THEN "OPEN"
              ELSE IF today < apply_start THEN "UPCOMING"
              ELSE IF today > apply_end THEN "CLOSED"
              ELSE "UNKNOWN"
    ELSE "UNKNOWN"

\* update_policy_status: one UPDATE of core.policy without WHERE
UpdatePolicyStatus(today) ==
    /\ policy # {}
    /\ policy' = { [p EXCEPT !.status = PolicyStatus(p.apply_type, p.apply_start, p.apply_end, today)] :
                     p \in policy }
    /\ statusRun' = today
    /\ UNCHANGED <<finVars, ingest, observed, orch, etl, assoc, lastSync, policyLanding, policyCurrent, polClock>>

TickPolicy ==
    /\ polClock < MaxPolClock
    /\ polClock' = polClock + 1
    /\ UNCHANGED <<finVars, ingest, observed, orch, etl, assoc, lastSync, policyLanding, policyCurrent, policy, statusRun>>

-----------------------------------------------------------------------------
(* policy/04_stg_to_core.py: run_etl, one connection and one commit per step *)

MaxEtlRuns == 2

\* steps 5-1 to 5-8 of run_etl, in the order of the calls
ETL_SYNCS ==
    <<"policy_category", "policy_eligibility_education", "policy_eligibility_job_status",
      "policy_eligibility_major", "policy_eligibility_specialization",
      "policy_keyword", "policy_region", "policy_eligibility">>

\* before: the association tables when the run began; eligibility: core.policy_eligibility,
\* one row per policy_id, written from the item (here its content_hash)
NoEtl ==
    [pc |-> "idle", status |-> "none", step |-> 0, items |-> {},
     before |-> [t \in AssocTables |-> {}], eligibility |-> {}, n |-> 0]

\* to_int_or_none(item.id): None for an id that is no number
ToIntOrNone(id) == IF id = "None" THEN NULL ELSE id

\* INSERT INTO core.policy_eligibility ... ON CONFLICT (policy_id) DO UPDATE, item by item
UpsertEligibility(rows, items) ==
    LET written == { it \in items : ToIntOrNone(it.id) # NULL }
    IN { e \in rows : \A it \in written : it.id # e[1] }
         \cup { <<it.id, it.content_hash>> : it \in written }

\* run_etl, steps 1 to 4: fetch_changed_rows, normalize_row, upsert_policy (committed);
\* the tag lists are those extract_list_from_payload reads from the payloads
RunEtlUpsert ==
    /\ etl.pc = "idle"
    /\ etl.n < MaxEtlRuns
    /\ \E raw_rows \in fetch_changed_rows :
         LET items == { normalize_row(r) : r \in raw_rows }
         IN /\ items # {}
            /\ policy' = { p \in policy : \A it \in items : it.id # p.id }
                           \cup { UpsertRow(policy, it) : it \in items }
            /\ \E tags \in [{ it.id : it \in items } -> TagLists] :
                 etl' = [etl EXCEPT
                           !.pc = "sync", !.status = "open", !.step = 1,
                           !.items = { [id |-> it.id, tags |-> tags[it.id],
                                        content_hash |-> it.content_hash] : it \in items },
                           !.before = assoc,
                           !.n = @ + 1]
    /\ statusRun' = 0
    /\ UNCHANGED <<finVars, ingest, observed, orch, assoc, lastSync, policyLanding, policyCurrent, polClock>>

\* run_etl, steps 5-1 to 5-8: the next sync on its own connection, committed at its end;
\* an exception of a sync leaves run_etl
RunEtlSync ==
    /\ etl.pc = "sync"
    /\ LET table == ETL_SYNCS[etl.step]
           next  == IF etl.step = Len(ETL_SYNCS)
                    THEN [etl EXCEPT !.pc = "idle", !.status = "done"]
                    ELSE [etl EXCEPT !.step = @ + 1]
       IN IF table = "policy_eligibility"
          THEN /\ assoc' = assoc
               /\ etl' = [next EXCEPT !.eligibility = UpsertEligibility(@, etl.items)]
          ELSE LET existing == assoc[table]
                   inserted == UNION { SeqToSet(InsertRowsOf(table, existing, it)) :
                                         it \in etl.items }
                   afterIns == existing \cup inserted
                   deleted  == DeleteRows(table, afterIns, etl.items)
               IN IF AssocUniqueViolated(table, existing, etl.items)
                  THEN /\ assoc' = assoc
                       /\ etl' = [etl EXCEPT !.pc = "idle", !.status = "failed"]
                  ELSE /\ assoc' = [assoc EXCEPT ![table] = afterIns \ deleted]
                       /\ etl' = next
    /\ UNCHANGED <<finVars, ingest, observed, orch, lastSync, stgVars>>

\* a sync on an autocommit connection, ended between its INSERT and its DELETE
RunEtlInterruptInSync ==
    /\ etl.pc = "sync"
    /\ etl' = [etl EXCEPT !.pc = "idle", !.status = "interrupted"]
    /\ LET table == ETL_SYNCS[etl.step]
       IN IF table = "policy_eligibility" THEN assoc' = assoc
          ELSE assoc' = [assoc EXCEPT ![table] =
                           @ \cup UNION { SeqToSet(InsertRowsOf(table, @, it)) :
                                            it \in etl.items }]
    /\ UNCHANGED <<finVars, ingest, observed, orch, lastSync, stgVars>>

\* run_etl when fetch_changed_rows selects no policy: `if not items: return`
RunEtlNoChange ==
    /\ etl.pc = "idle"
    /\ etl.n < MaxEtlRuns
    /\ \E raw_rows \in fetch_changed_rows : raw_rows = {}
    /\ etl' = [etl EXCEPT !.status = "nochange", !.n = @ + 1]
    /\ UNCHANGED <<finVars, ingest, observed, orch, assoc, lastSync, stgVars>>

\* the process ends between upsert_policy and the last sync (killed, connection lost):
\* the sync under way, if any, is not committed
RunEtlInterrupt ==
    /\ etl.pc = "sync"
    /\ etl' = [etl EXCEPT !.pc = "idle", !.status = "interrupted"]
    /\ UNCHANGED <<finVars, ingest, observed, orch, assoc, lastSync, stgVars>>

-----------------------------------------------------------------------------
(* run_all_policy_elt.py: the orchestrator of the policy pipeline.  A stage is a *)
(* child process: it is started, commits zero or more transactions, and exits.  *)

STEPS ==
    <<"01_raw_ingest.py", "02_stg_landing.py", "03_stg_refresh_current.py",
      "04_stg_to_core.py", "05_update_policy_status.py">>

\* exit code -1: the process has not exited
NoPipeline ==
    [state |-> "idle", started |-> <<>>, failed |-> <<>>, exits |-> <<>>, exit |-> -1]

\* the stage whose process is running
RunningStage ==
    IF orch.state = "running" THEN orch.started[Len(orch.started)] ELSE NULL

\* the exit status of a stage script whose database transaction did or did not fail:
\* an exception leaves main() of 01 to 04 uncaught; the __main__ block of 05 catches it
StageExitCode(stage, failed) ==
    IF failed /\ stage # "05_update_policy_status.py" THEN 1 ELSE 0

\* subprocess.run(..., check=False): the exit status is not looked at
StageFailedUnchecked(code) == FALSE

\* subprocess.run(..., check=True) raises CalledProcessError on a non-zero exit status
StageFailed(code) == code # 0

\* main(): the loop over STEPS begins with run_step(STEPS[0])
StartPipeline ==
    /\ orch.state = "idle"
    /\ orch' = [NoPipeline EXCEPT !.state = "running", !.started = <<STEPS[1]>>]
    /\ UNCHANGED <<finVars, ingest, observed, etl, assoc, lastSync, stgVars>>

\* the running stage exits; run_step returns or calls sys.exit(1), main goes on to the
\* next step or returns
StageExit(failed) ==
    /\ orch.state = "running"
    /\ LET code   == StageExitCode(RunningStage, failed)
           exits  == Append(orch.exits, code)
           faults == Append(orch.failed, failed)
       IN orch' =
            IF StageFailed(code)
            THEN [orch EXCEPT !.state = "failed", !.exits = exits, !.failed = faults, !.exit = 1]
            ELSE IF Len(orch.started) = Len(STEPS)
            THEN [orch EXCEPT !.state = "ok", !.exits = exits, !.failed = faults, !.exit = 0]
            ELSE [orch EXCEPT !.exits = exits, !.failed = faults,
                              !.started = Append(orch.started, STEPS[Len(orch.started) + 1])]
    /\ UNCHANGED <<finVars, ingest, observed, etl, assoc, lastSync, stgVars>>

-----------------------------------------------------------------------------
(* finproduct/04_stg_to_core.py: two processes in upsert_for_type at the same time *)

\* two invocations of the reconciler; each runs its pass in one READ COMMITTED transaction
Runs == {1, 2}

Other(r) == 3 - r

\* writes: the row versions of core.product the transaction wrote and has not committed
\* (it holds their row locks); pending: the rows a blocked statement waits to write
NoRun(status) ==
    [pc |-> "idle", status |-> status, product_type |-> NULL, now |-> NullTs,
     writes |-> {}, waiting |-> FALSE, pending |-> {}, cand |-> {}]

Ids(rows) == { x.id : x \in rows }

Overwrite(rows, versions) == { x \in rows : x.id \notin Ids(versions) } \cup versions

\* what a statement of run r reads: the committed rows and the run's own writes
RunView(r) == Overwrite(product, runs[r].writes)

\* the rows whose lock the other transaction holds
LockedByOther(r) == Ids(runs[Other(r)].writes)

\* an index that ignores the entries of transactions in progress
UniqueNoWait(r, new) == FALSE

\* uq_product_current meets, for the key of a new row, an entry whose transaction is in
\* progress (a row the other run inserted, closed or updated): the INSERT waits for it
UniqueWait(r, new) ==
    \E n \in new :
        \E x \in runs[Other(r)].writes \cup { p \in product : p.id \in LockedByOther(r) } :
            /\ x.is_current
            /\ x.ext_source = n.ext_source /\ x.ext_id = n.ext_id

\* ROLLBACK of run r: the exception leaves `with engine.begin()`
RunRollback(r) == runs' = [runs EXCEPT ![r] = NoRun("failed")]

\* an UPDATE of run r over the rows `targets` of its snapshot, written[p] the new version
\* of row p: the rows that are free are written, the statement waits for the rows the other transaction holds
RunUpdate(r, targets, cand, written, next) ==
    LET free == { p \in targets : p.id \notin LockedByOther(r) }
        held == targets \ free
    IN runs' = [runs EXCEPT ![r] =
                  [@ EXCEPT !.writes = Overwrite(@, { written[p] : p \in free }),
                            !.waiting = held # {},
                            !.pending = held,
                            !.cand = cand,
                            !.pc = IF held = {} THEN next ELSE @]]

\* run(): `with engine.begin() as conn` of one product type; now() is the start of the
\* transaction
RunBegin(r, pt) ==
    /\ pc = "idle"
    /\ runs[r].pc = "idle"
    /\ clock < horizon
    /\ clock' = clock + 1
    /\ runs' = [runs EXCEPT ![r] = [NoRun("open") EXCEPT !.pc = "close",
                                                          !.product_type = pt,
                                                          !.now = clock + 1]]
    /\ UNCHANGED <<baseLanding, optLanding, product, productOption, specialCondition,
                   productSeq, optionSeq, horizon, pc, txn, synced, polVars, ingest, observed>>

\* conn.execute(BASE_CLOSE_SQL) of run r
RunBaseClose(r) ==
    /\ runs[r].pc = "close" /\ ~runs[r].waiting
    /\ \E cand \in BaseCandidateSets(runs[r].product_type) :
         LET targets == { p \in RunView(r) :
                            \E c \in cand : BaseJoin(p, c)
                                            /\ p.content_hash # c.content_hash }
             written == [p \in targets |-> CloseRow(p, runs[r].now)]
         IN RunUpdate(r, targets, cand, written, "insert")
    /\ UNCHANGED <<baseLanding, optLanding, product, productOption, specialCondition,
                   productSeq, optionSeq, clock, horizon, pc, txn, synced, polVars, ingest, observed>>

\* conn.execute(BASE_INSERT_SQL) of run r
RunBaseInsert(r) ==
    /\ runs[r].pc = "insert" /\ ~runs[r].waiting
    /\ \E cand \in BaseCandidateSets(runs[r].product_type) :
         LET need_insert ==
                 { c \in cand :
                     \/ \A p \in RunView(r) : ~BaseJoin(p, c)
                     \/ \E p \in RunView(r) : BaseJoin(p, c)
                                              /\ p.content_hash # c.content_hash }
         IN \E numbered \in NumberRows(need_insert, productSeq) :
            LET new == { NewProductRow(x[2], x[1], runs[r].now) : x \in numbered }
            IN
            /\ productSeq' = productSeq + Cardinality(need_insert)
            /\ IF UniqueWait(r, new)
               THEN runs' = [runs EXCEPT ![r].waiting = TRUE, ![r].pending = new]
               ELSE IF UqProductCurrentViolated(RunView(r) \cup new)
               THEN RunRollback(r)
               ELSE runs' = [runs EXCEPT ![r].writes = @ \cup new, ![r].pc = "touch"]
    /\ UNCHANGED <<baseLanding, optLanding, product, productOption, specialCondition,
                   optionSeq, clock, horizon, pc, txn, synced, polVars, ingest, observed>>

\* conn.execute(BASE_TOUCH_SQL) of run r
RunBaseTouch(r) ==
    /\ runs[r].pc = "touch" /\ ~runs[r].waiting
    /\ \E cand \in BaseCandidateSets(runs[r].product_type) :
         LET targets == { p \in RunView(r) :
                            \E c \in cand : BaseJoin(p, c)
                                            /\ p.content_hash = c.content_hash }
             written == [p \in targets |-> TouchRow(p, runs[r].now)]
         IN RunUpdate(r, targets, cand, written, "option")
    /\ UNCHANGED <<baseLanding, optLanding, product, productOption, specialCondition,
                   productSeq, optionSeq, clock, horizon, pc, txn, synced, polVars, ingest, observed>>

\* conn.execute(OPTION_UPSERT_SQL) of run r: no option was landed, opt_raw is empty and
\* the statement writes no row
RunOptionUpsert(r) ==
    /\ runs[r].pc = "option"
    /\ optLanding = {}
    /\ runs' = [runs EXCEPT ![r].pc = "recompute"]
    /\ UNCHANGED <<baseLanding, optLanding, product, productOption, specialCondition,
                   productSeq, optionSeq, clock, horizon, pc, txn, synced, polVars, ingest, observed>>

\* conn.execute(RECOMPUTE_OPTION_SET_HASH_SQL) of run r
RunRecompute(r) ==
    /\ runs[r].pc = "recompute" /\ ~runs[r].waiting
    /\ LET targets == { p \in RunView(r) :
                          p.is_current /\ p.product_type = runs[r].product_type }
           written == [p \in targets |->
                         IF CurrentOptionsOf(p.id) # {}
                         THEN AggUpdate(p, CurrentOptionsOf(p.id), runs[r].now)
                         ELSE ZeroUpdate(p, runs[r].now)]
       IN RunUpdate(r, targets, {}, written, "analyze")
    /\ UNCHANGED <<baseLanding, optLanding, product, productOption, specialCondition,
                   productSeq, optionSeq, clock, horizon, pc, txn, synced, polVars, ingest, observed>>

\* the other transaction ended: the blocked statement of run r goes on. An UPDATE takes
\* the latest version of each row it waited for and writes it when the row still meets
\* the statement's WHERE; an INSERT fails on the entry the other run committed
RunResume(r) ==
    /\ runs[r].waiting
    /\ runs[Other(r)].pc = "idle"
    /\ LET me      == runs[r]
           latest  == { q \in RunView(r) : q.id \in Ids(me.pending) }
           closing == { q \in latest :
                          \E c \in me.cand : BaseJoin(q, c)
                                             /\ q.content_hash # c.content_hash }
           touching == { q \in latest :
                           \E c \in me.cand : BaseJoin(q, c)
                                              /\ q.content_hash = c.content_hash }
           zeroing == { q \in latest : q.is_current /\ q.product_type = me.product_type }
           done(versions, next) ==
               runs' = [runs EXCEPT ![r] = [me EXCEPT !.writes = Overwrite(@, versions),
                                                      !.waiting = FALSE,
                                                      !.pending = {},
                                                      !.pc = next]]
       IN CASE me.pc = "close"  -> done({ CloseRow(q, me.now) : q \in closing }, "insert")
            [] me.pc = "insert" ->
                 IF UqProductCurrentViolated(RunView(r) \cup me.pending)
                 THEN RunRollback(r)
                 ELSE done(me.pending, "touch")
            [] me.pc = "touch"  -> done({ TouchRow(q, me.now) : q \in touching }, "option")
            [] me.pc = "recompute" ->
                 done({ IF CurrentOptionsOf(q.id) # {}
                        THEN AggUpdate(q, CurrentOptionsOf(q.id), me.now)
                        ELSE ZeroUpdate(q, me.now) : q \in zeroing }, "analyze")
    /\ UNCHANGED <<baseLanding, optLanding, product, productOption, specialCondition,
                   productSeq, optionSeq, clock, horizon, pc, txn, synced, polVars, ingest, observed>>

\* analyze_changed_products(conn, changed_product_ids, skip_gemini=True): returns (0, 0)
RunAnalyze(r) ==
    /\ runs[r].pc = "analyze"
    /\ runs' = [runs EXCEPT ![r].pc = "commit"]
    /\ UNCHANGED <<baseLanding, optLanding, product, productOption, specialCondition,
                   productSeq, optionSeq, clock, horizon, pc, txn, synced, polVars, ingest, observed>>

\* leaving `with engine.begin() as conn` of run r without an exception: COMMIT
RunCommit(r) ==
    /\ runs[r].pc = "commit"
    /\ product' = RunView(r)
    /\ synced' = synced \cup {runs[r].product_type}
    /\ runs' = [runs EXCEPT ![r] = NoRun("committed")]
    /\ UNCHANGED <<baseLanding, optLanding, productOption, specialCondition,
                   productSeq, optionSeq, clock, horizon, pc, txn, polVars, ingest, observed>>


-----------------------------------------------------------------------------
(* routers/finproduct: the Read API over the committed tables *)

\* what a query of another connection reads while a pass is open: the committed rows
CommittedProduct == IF txn.status = "open" THEN txn.saved.product ELSE product

CommittedOption == IF txn.status = "open" THEN txn.saved.productOption ELSE productOption

\* FROM core.product p ... LEFT JOIN core.product_option po ON p.id = po.product_id
ProductWithOptions(p) ==
    [product |-> p, options |-> { po \in CommittedOption : po.product_id = p.id }]

\* get_finproduct_list: base_tables, WHERE 1=1 [AND p.product_type = ...], GROUP BY p.id;
\* product_type NULL is the request without the filter
get_finproduct_list(product_type) ==
    { ProductWithOptions(p) :
        p \in { q \in CommittedProduct :
                  product_type = NULL \/ q.product_type = product_type } }

\* get_finproduct_detail: main_sql WHERE p.id = :finproduct_id, options_sql
\* WHERE po.product_id = :finproduct_id; no row is the 404 response
get_finproduct_detail(finproduct_id) ==
    { ProductWithOptions(p) : p \in { q \in CommittedProduct : q.id = finproduct_id } }

-----------------------------------------------------------------------------
(* 01_raw_ingest.py (policy main, finproduct ingest_one): the paginated fetch  *)
(* loop.  An upstream is what the remote API answers: the number of pages it   *)
(* declares (0: it declares none) and, page by page, the shape of the item     *)
(* list of the body.  The pages from MaxRawPage on are one page of the model.  *)

\* stop_after_attempt(RETRY_MAX)
RETRY_MAX == 2

MaxRawPage == 3

FEEDS == {"policy", "finproduct"}

\* the item list of a page: a list with items, the empty list, no such key in
\* the body, or a value that is not a list (the API's answer for an empty page)
Bodies == {"items", "empty", "absent", "null"}

Upstreams == [total : 0..MaxRawPage, body : [1..MaxRawPage -> Bodies]]

START_PAGES == 0..2

END_PAGES == 0..2

\* httpx.HTTPError of raise_for_status, ApiError of an unparsable body
FetchErrors == {"HTTPError", "ApiError"}

NoIngest ==
    [pc |-> "idle", feed |-> "none", upstream |-> [total |-> 0, body |-> [p \in 1..MaxRawPage |-> "items"]],
     END_PAGE |-> 0, page |-> 0, last_page_seen |-> 0, attempt |-> 0,
     error |-> "none", rows |-> {}, fetched |-> {}]

\* extract_paging_meta: tot_page (policy), max_page_no (finproduct)
extract_paging_meta(up) == up.total

\* result.get(list, result.get(other, [])): a missing key reads as the empty list
ItemsOf(body) == IF body = "absent" THEN "empty" ELSE body

\* the third stop condition: isinstance(items, list) and len(items) == 0
EmptyItemsStop(feed, body, tot) ==
    /\ ItemsOf(body) = "empty"
    /\ (feed = "finproduct" => tot = 0)

\* main / ingest_one up to the first fetch
StartIngest(feed, start, end, up) ==
    /\ ingest.pc = "idle"
    /\ ingest' = [NoIngest EXCEPT !.pc = "fetch", !.feed = feed, !.upstream = up,
                               !.END_PAGE = end,
                               !.page = IF start > 1 THEN start ELSE 1]
    /\ UNCHANGED <<finVars, polVars, observed>>

\* the failing attempt counts toward stop_after_attempt and writes nothing
FailedAttemptWritesRow(kind) ==
    /\ ingest.pc = "fetch"
    /\ ingest' = [ingest EXCEPT !.attempt = ingest.attempt + 1,
                          !.error = kind,
                          !.rows = ingest.rows \cup {ingest.page},
                          !.pc = IF ingest.attempt + 1 >= RETRY_MAX THEN "aborted" ELSE "fetch"]
    /\ UNCHANGED <<finVars, polVars, observed>>

\* one attempt of fetch_page raises: tenacity tries again, or, after the
\* RETRY_MAX-th attempt, raises out of the loop and the process ends
FetchFails(kind) ==
    /\ ingest.pc = "fetch"
    /\ ingest' = [ingest EXCEPT !.attempt = ingest.attempt + 1,
                          !.error = kind,
                          !.pc = IF ingest.attempt + 1 >= RETRY_MAX THEN "aborted" ELSE "fetch"]
    /\ UNCHANGED <<finVars, polVars, observed>>

\* one attempt of fetch_page returns: the rest of the loop body, that is the
\* INSERT into ingest.*_pages, the commit, and the stop conditions
FetchSucceeds ==
    /\ ingest.pc = "fetch"
    /\ LET tot  == extract_paging_meta(ingest.upstream)
           last == IF ingest.last_page_seen = 0 /\ tot # 0 THEN tot ELSE ingest.last_page_seen
           body == ingest.upstream.body[ingest.page]
           stop == \/ ingest.END_PAGE # 0 /\ ingest.page >= ingest.END_PAGE
                   \/ last # 0 /\ ingest.page >= last
                   \/ EmptyItemsStop(ingest.feed, body, tot)
       IN  ingest' = [ingest EXCEPT !.last_page_seen = last,
                              !.rows = ingest.rows \cup {ingest.page},
                              !.fetched = ingest.fetched \cup {ingest.page},
                              !.attempt = 0,
                              !.error = "none",
                              !.pc = IF stop THEN "done" ELSE "fetch",
                              !.page = IF stop \/ ingest.page = MaxRawPage
                                       THEN ingest.page ELSE ingest.page + 1]
    /\ UNCHANGED <<finVars, polVars, observed>>

-----------------------------------------------------------------------------
(* The pipelines *)

Init ==
    /\ baseLanding = {}
    /\ optLanding = {}
    /\ product = {}
    /\ productOption = {}
    /\ specialCondition = {}
    /\ productSeq = 0
    /\ optionSeq = 0
    /\ clock = 0
    /\ horizon = MaxClock
    /\ pc = "idle"
    /\ txn = NoTxn("none")
    /\ synced = {}
    /\ assoc = [t \in AssocTables |-> {}]
    /\ lastSync = NoSync @@ [n |-> 0]
    /\ policyLanding = {}
    /\ policyCurrent = {}
    /\ policy = {}
    /\ polClock = 0
    /\ statusRun = 0
    /\ orch = NoPipeline
    /\ runs = [r \in Runs |-> NoRun("none")]
    /\ etl = NoEtl
    /\ ingest = NoIngest
    /\ observed = NoObservation

Next ==
    \/ \E pt \in ProductTypes : \E b \in Batches(BaseItems) : LandBase(pt, b)
    \/ \E pt \in ProductTypes : \E b \in Batches(OptItems) : LandOption(pt, b)
    \/ \E pt \in ProductTypes : BaseClose(pt)
    \/ BaseInsert
    \/ BaseTouch
    \/ OptionUpsert
    \/ Recompute
    \/ \E g \in GeminiModes : Analyze(g)
    \/ Commit

\* the finproduct pipeline, from empty tables
Spec == Init /\ [][Next]_vars

\* the finproduct tables after a DEPOSIT base item (dcls_month 202401) was landed at
\* tick 1, an option item without dcls_month and without key values at tick 2, and a run
\* for DEPOSIT committed at tick 3
ReconciledTables ==
    LET b  == BaseLandingRow([product_type |-> "DEPOSIT", fin_prdt_cd |-> "P1",
                              payload |-> [dcls_month |-> "202401", spcl_cnd |-> "", fin_co_subm_day |-> "1"]], 1)
        o  == OptLandingRow([product_type |-> "DEPOSIT", fin_prdt_cd |-> "P1",
                             payload |-> OptPayload(NULL, "", NULL, NULL, "3.0")], 2)
        po == NewOptionRow([o |-> o, product_id |-> 1], 1, 3)
    IN /\ baseLanding = {b}
       /\ optLanding = {o}
       /\ product = { AggUpdate(NewProductRow(b, 1, 3), {po}, 3) }
       /\ productOption = {po}
       /\ specialCondition = {}
       /\ productSeq = 1
       /\ optionSeq = 1
       /\ clock = 3
       /\ pc = "idle"
       /\ txn = NoTxn("committed")
       /\ synced = {"DEPOSIT"}

InitReconciled ==
    /\ ReconciledTables
    /\ horizon = MaxClock + 3
    /\ assoc = [t \in AssocTables |-> {}]
    /\ lastSync = NoSync @@ [n |-> 0]
    /\ policyLanding = {}
    /\ policyCurrent = {}
    /\ policy = {}
    /\ polClock = 0
    /\ statusRun = 0
    /\ orch = NoPipeline
    /\ runs = [r \in Runs |-> NoRun("none")]
    /\ etl = NoEtl
    /\ ingest = NoIngest
    /\ observed = NoObservation

\* the finproduct pipeline, from a reconciled product
SpecReconciled == InitReconciled /\ [][Next]_vars

NextPolicy ==
    \E table \in AssocTables : \E items \in ItemLists : SyncPolicyAssoc(table, items)

\* the association syncs of the policy pipeline
SpecPolicy == Init /\ [][NextPolicy]_vars

NextStaging ==
    \/ \E page \in PolicyPages : UpsertLanding(page)
    \/ \E lookback \in 0..MaxLookback : RefreshCurrent(lookback)
    \/ UpsertPolicy
    \/ \E today \in 1..MaxDay : UpdatePolicyStatus(today)
    \/ TickPolicy

\* the policy pipeline from landing to status, from empty tables
SpecStaging == Init /\ [][NextStaging]_vars

NextOrchestrated ==
    \/ StartPipeline
    \/ RunningStage = "02_stg_landing.py" /\ \E page \in PolicyPages : UpsertLanding(page)
    \/ RunningStage = "03_stg_refresh_current.py"
          /\ \E lookback \in 0..MaxLookback : RefreshCurrent(lookback)
    \/ RunningStage = "04_stg_to_core.py" /\ UpsertPolicy
    \/ RunningStage = "05_update_policy_status.py"
          /\ \E today \in 1..MaxDay : UpdatePolicyStatus(today)
    \/ \E failed \in BOOLEAN : StageExit(failed)
    \/ TickPolicy

\* core.product after a DEPOSIT base item (dcls_month 202401) was landed at tick 1 and a
\* run for DEPOSIT committed at tick 2; no option was landed
ReconciledBase ==
    LET b == BaseLandingRow([product_type |-> "DEPOSIT", fin_prdt_cd |-> "P1",
                             payload |-> [dcls_month |-> "202401", spcl_cnd |-> "", fin_co_subm_day |-> "1"]], 1)
    IN /\ baseLanding = {b}
       /\ product = { ZeroUpdate(NewProductRow(b, 1, 2), 2) }
       /\ productSeq = 1
       /\ clock = 2
       /\ synced = {"DEPOSIT"}

InitConcurrent ==
    /\ \/ baseLanding = {} /\ product = {} /\ productSeq = 0 /\ clock = 0 /\ synced = {}
       \/ ReconciledBase
    /\ optLanding = {}
    /\ productOption = {}
    /\ specialCondition = {}
    /\ optionSeq = 0
    /\ horizon = clock + MaxConcurrentTicks
    /\ pc = "idle"
    /\ txn = NoTxn("none")
    /\ assoc = [t \in AssocTables |-> {}]
    /\ lastSync = NoSync @@ [n |-> 0]
    /\ policyLanding = {}
    /\ policyCurrent = {}
    /\ policy = {}
    /\ polClock = 0
    /\ statusRun = 0
    /\ orch = NoPipeline
    /\ runs = [r \in Runs |-> NoRun("none")]
    /\ etl = NoEtl
    /\ ingest = NoIngest
    /\ observed = NoObservation

NextConcurrent ==
    \/ \E pt \in ProductTypes : \E b \in Batches(BaseItems) : LandBase(pt, b)
    \/ \E r \in Runs : \E pt \in ProductTypes : RunBegin(r, pt)
    \/ \E r \in Runs : RunBaseClose(r)
    \/ \E r \in Runs : RunBaseInsert(r)
    \/ \E r \in Runs : RunBaseTouch(r)
    \/ \E r \in Runs : RunOptionUpsert(r)
    \/ \E r \in Runs : RunRecompute(r)
    \/ \E r \in Runs : RunAnalyze(r)
    \/ \E r \in Runs : RunResume(r)
    \/ \E r \in Runs : RunCommit(r)

\* two reconciler processes (run with --skip-gemini) at the same time, over the base
\* landing, from empty tables or from one reconciled product
SpecConcurrent == InitConcurrent /\ [][NextConcurrent]_vars

\* one invocation of run_all_policy_elt on empty tables
SpecOrchestrated == Init /\ [][NextOrchestrated]_vars

\* the finproduct landing tables are in the database of PG_DSN_FIN, untouched so far
FinUntouched == baseLanding = {} /\ optLanding = {} /\ clock = 0

\* the policy landing table is in the database of PG_DSN, untouched so far
PolicyUntouched == policyLanding = {} /\ polClock = 0

NextLanding ==
    \/ PolicyUntouched /\ \E pt \in ProductTypes : \E b \in Batches(BaseItems) : LandBase(pt, b)
    \/ PolicyUntouched /\ \E pt \in ProductTypes : \E b \in Batches(OptItems) : LandOption(pt, b)
    \/ FinUntouched /\ \E page \in PolicyPages : UpsertLanding(page)
    \/ FinUntouched /\ TickPolicy

\* the three landing normalizers alone, from empty tables; the two databases are
\* independent, a behaviour follows the normalizers of one of them
SpecLanding == Init /\ [][NextLanding]_vars

\* pages of one item: two contents of policy P1 and one of policy P2
EtlPages ==
    { <<i>> : i \in { PolicyItem("P1", "0057001", "2 ~ 3", "10"),
                      PolicyItem("P1", "0057002", "", "10"),
                      PolicyItem("P2", "0057001", "3 ~ 1", "10") } }

\* the stages before run_etl run while run_etl does not, up to its last run
BeforeEtl == FinUntouched /\ etl.pc = "idle" /\ etl.n < MaxEtlRuns

NextInterrupted ==
    \/ PolicyUntouched /\ etl = NoEtl /\ Next
    \/ PolicyUntouched /\ etl = NoEtl /\ Interrupt
    \/ BeforeEtl /\ \E page \in EtlPages : UpsertLanding(page)
    \/ BeforeEtl /\ \E lookback \in 0..MaxLookback : RefreshCurrent(lookback)
    \/ BeforeEtl /\ TickPolicy
    \/ FinUntouched /\ RunEtlUpsert
    \/ FinUntouched /\ RunEtlSync
    \/ FinUntouched /\ RunEtlInterrupt

\* the two reconcilers, each of which may be ended at any point of a run; the two
\* databases are independent, a behaviour follows one of them; the stages of the policy
\* pipeline run one after another
SpecInterrupted == Init /\ [][NextInterrupted]_vars

\* the landing normalizers and the reconcilers of both feeds, the observations followed
InitObserved ==
    /\ baseLanding = {}
    /\ optLanding = {}
    /\ product = {}
    /\ productOption = {}
    /\ specialCondition = {}
    /\ productSeq = 0
    /\ optionSeq = 0
    /\ clock = 0
    /\ horizon = MaxClock
    /\ pc = "idle"
    /\ txn = NoTxn("none")
    /\ synced = {}
    /\ assoc = [t \in AssocTables |-> {}]
    /\ lastSync = NoSync @@ [n |-> 0]
    /\ policyLanding = {}
    /\ policyCurrent = {}
    /\ policy = {}
    /\ polClock = 0
    /\ statusRun = 0
    /\ orch = NoPipeline
    /\ runs = [r \in Runs |-> NoRun("none")]
    /\ etl = NoEtl
    /\ ingest = NoIngest
    /\ observed = AllObservations

NextObserved ==
    \/ PolicyUntouched /\ \E pt \in ProductTypes : \E b \in Batches(BaseItems) : LandBase(pt, b)
    \/ PolicyUntouched /\ \E pt \in ProductTypes : BaseClose(pt)
    \/ PolicyUntouched /\ BaseInsert
    \/ PolicyUntouched /\ BaseTouch
    \/ PolicyUntouched /\ OptionUpsert
    \/ PolicyUntouched /\ Recompute
    \/ PolicyUntouched /\ \E g \in GeminiModes : Analyze(g)
    \/ PolicyUntouched /\ Commit
    \/ FinUntouched /\ \E page \in PolicyPages : UpsertLanding(page)
    \/ FinUntouched /\ \E lookback \in 0..MaxLookback : RefreshCurrent(lookback)
    \/ FinUntouched /\ UpsertPolicy
    \/ FinUntouched /\ TickPolicy

SpecObserved == InitObserved /\ [][NextObserved]_vars

\* the policy pipeline with run_etl step by step, a run of which may be ended at any
\* point and followed by another run
NextRerun ==
    \/ BeforeEtl /\ \E page \in EtlPages : UpsertLanding(page)
    \/ BeforeEtl /\ \E lookback \in 0..MaxLookback : RefreshCurrent(lookback)
    \/ BeforeEtl /\ TickPolicy
    \/ RunEtlUpsert
    \/ RunEtlSync
    \/ RunEtlInterrupt
    \/ RunEtlNoChange

SpecRerun == Init /\ [][NextRerun]_vars

\* the fetch stage alone
NextIngest ==
    \/ \E feed \in FEEDS : \E start \in START_PAGES : \E end \in END_PAGES :
         \E up \in Upstreams : StartIngest(feed, start, end, up)
    \/ \E kind \in FetchErrors : FetchFails(kind)
    \/ FetchSucceeds

SpecIngest == Init /\ [][NextIngest]_vars

\* the loop is sequential code: while it is in the loop its next attempt happens
FetchStep == (\E kind \in FetchErrors : FetchFails(kind)) \/ FetchSucceeds

SpecIngestFair == SpecIngest /\ WF_vars(FetchStep)

-----------------------------------------------------------------------------
(* Properties of the finproduct reconciler *)

\* the natural key of a core.product row
NaturalKey(p) == <<p.ext_source, p.ext_id>>

\* the natural key a landing row belongs to
LandedKey(b) == <<b.ext_source, b.fin_prdt_cd>>

\* the versioning columns of a core row
Version(r) ==
    [id |-> r.id, is_current |-> r.is_current, content_hash |-> r.content_hash,
     valid_from_ts |-> r.valid_from_ts, valid_to_ts |-> r.valid_to_ts]

\* the base landing rows of a key that no other row of the key precedes by disclosure
\* month (NULL as 190001), then run_ts
TopBaseRows(k) ==
    LET land == { b \in baseLanding : LandedKey(b) = k }
    IN { b \in land :
           \A c \in land :
               /\ ToDate(c.payload.dcls_month) <= ToDate(b.payload.dcls_month)
               /\ ToDate(c.payload.dcls_month) = ToDate(b.payload.dcls_month)
                    => c.run_ts <= b.run_ts }

\* C1: in every state, between the statements of a run as well as after a commit or a
\* rollback, core.product holds at most one row with is_current = TRUE per natural key
\* (ext_source, ext_id).
SingleCurrentProduct ==
    \A a, b \in product :
        (a.is_current /\ b.is_current /\ NaturalKey(a) = NaturalKey(b)) => a = b

\* C1 case: between BASE_INSERT_SQL and BASE_TOUCH_SQL of a run that closed the version of
\* a key and inserted its next one
SingleCurrentProductWitness ==
    /\ pc = "touch"
    /\ \E a, b \in product :
         /\ NaturalKey(a) = NaturalKey(b)
         /\ ~a.is_current /\ a.valid_to_ts = txn.now
         /\ b.is_current /\ b.valid_from_ts = txn.now

\* C2: a run for a product type whose landing rows are unchanged since the type's last
\* committed run leaves the rows of core.product and core.product_option with the same
\* id, is_current, content_hash, valid_from_ts and valid_to_ts as before the run.
SecondRunChangesNothing ==
    (pc = "commit" /\ txn.product_type \in synced) =>
        /\ { Version(r) : r \in product } = { Version(r) : r \in txn.saved.product }
        /\ { Version(r) : r \in productOption }
             = { Version(r) : r \in txn.saved.productOption }

\* the rows that have valid_to_ts set are in the next state, with the same content_hash,
\* payload and valid_from_ts
ClosedRowsKept(old, new) ==
    \A r \in old :
        r.valid_to_ts # NullTs =>
            \E q \in new : /\ q.id = r.id
                           /\ q.content_hash = r.content_hash
                           /\ q.payload = r.payload
                           /\ q.valid_from_ts = r.valid_from_ts

\* C3: no step changes the content_hash, payload or valid_from_ts of a core.product or
\* core.product_option row whose valid_to_ts is set.
HistoryImmutable ==
    [][ClosedRowsKept(product, product') /\ ClosedRowsKept(productOption, productOption')]_vars

\* C3 case: an option closed by an earlier run and a product closed by this run, after the
\* option upsert, the recomputation and the classification of this run
HistoryImmutableWitness ==
    /\ pc = "commit"
    /\ \E po \in productOption : po.valid_to_ts # NullTs /\ po.valid_to_ts < txn.now
    /\ \E p \in product : p.valid_to_ts = txn.now

\* C4: at the end of a run, (a) a key that had no core.product row, has one base landing
\* row and no option landing row has exactly one core.product row, current, with
\* options_count = 0; (b) a key that had one row, current, and whose candidate landing rows
\* all carry another content hash has exactly two rows: the old one closed with
\* valid_to_ts set, and a new current one with the hash of a candidate.
CloseThenOpen ==
    pc = "commit" =>
      \A k \in { LandedKey(b) : b \in BaseRowsOf(txn.product_type) } :
        LET land   == { b \in baseLanding : LandedKey(b) = k }
            opts   == { o \in optLanding : LandedKey(o) = k }
            before == { p \in txn.saved.product : NaturalKey(p) = k }
            after  == { p \in product : NaturalKey(p) = k }
        IN /\ (before = {} /\ Cardinality(land) = 1 /\ opts = {}) =>
                \E p \in after :
                    /\ after = {p}
                    /\ p.is_current
                    /\ p.options_count = IntVal(0)
                    /\ \A b \in land : p.content_hash = b.content_hash
           /\ \A old \in before :
                (/\ before = {old}
                 /\ old.is_current
                 /\ \A b \in TopBaseRows(k) : b.content_hash # old.content_hash) =>
                    \E c, n \in after :
                        /\ after = {c, n}
                        /\ c.id = old.id /\ c.content_hash = old.content_hash
                        /\ ~c.is_current /\ c.valid_to_ts # NullTs
                        /\ n.id # old.id
                        /\ n.is_current /\ n.valid_to_ts = NullTs
                        /\ \E b \in TopBaseRows(k) : n.content_hash = b.content_hash

\* C4 case: the end of the second run for a key: its first version closed, its second current
CloseThenOpenWitness ==
    /\ pc = "commit"
    /\ \E old \in txn.saved.product :
         /\ old.is_current
         /\ { p \in txn.saved.product : NaturalKey(p) = NaturalKey(old) } = {old}
         /\ \A b \in TopBaseRows(NaturalKey(old)) : b.content_hash # old.content_hash
         /\ Cardinality({ p \in product : NaturalKey(p) = NaturalKey(old) }) = 2
         /\ \E c \in product : c.id = old.id /\ ~c.is_current

\* the option key columns with NULL (and the empty save_trm) read as the sentinel
SentinelKey(payload) ==
    <<IF payload.save_trm = NULL \/ payload.save_trm = "" THEN "-1" ELSE payload.save_trm,
      IF payload.intr_rate_type = NULL THEN "" ELSE payload.intr_rate_type,
      IF payload.rsrv_type = NULL THEN "" ELSE payload.rsrv_type>>

\* C5: in every state core.product_option holds at most one row with is_current = TRUE per
\* product_id and option key (save_trm, intr_rate_type, rsrv_type), a NULL save_trm read as
\* -1 and a NULL intr_rate_type or rsrv_type as the empty string.
SingleCurrentOption ==
    \A a, b \in productOption :
        (/\ a.is_current /\ b.is_current
         /\ a.product_id = b.product_id
         /\ SentinelKey(a.payload) = SentinelKey(b.payload)) => a = b

\* C5 case: an option with NULL key values was current; one with the sentinel values
\* -1, '', '' was landed for the same product, and a run closed the first for the second
SingleCurrentOptionWitness ==
    \E a, b \in productOption :
        /\ a.product_id = b.product_id
        /\ a.payload.save_trm = "" /\ a.payload.intr_rate_type = NULL
        /\ b.payload.save_trm = "-1" /\ b.payload.intr_rate_type = ""
        /\ ~a.is_current /\ b.is_current

\* the option landing rows of a product key and an option key
OptRowsOfKey(k, ok) ==
    { o \in optLanding : LandedKey(o) = k /\ SentinelKey(o.payload) = ok }

\* the current options of a product under an option key
CurrentOfKey(pid, ok) ==
    { po \in productOption :
        po.is_current /\ po.product_id = pid /\ SentinelKey(po.payload) = ok }

\* two option landing rows of one product and one option key, with different dcls_month,
\* landed in different batches, the only landing rows of that key; b has the later month
TwoPeriods(a, b) ==
    /\ LandedKey(a) = LandedKey(b)
    /\ SentinelKey(a.payload) = SentinelKey(b.payload)
    /\ a.payload.dcls_month # NULL /\ b.payload.dcls_month # NULL
    /\ ToDate(a.payload.dcls_month) < ToDate(b.payload.dcls_month)
    /\ a.run_ts # b.run_ts
    /\ OptRowsOfKey(LandedKey(a), SentinelKey(a.payload)) = {a, b}

\* C8, as the specification states it: at the end of a run, of two option landing rows of
\* one option key with different dcls_month, the one with the later dcls_month is the
\* current option of the key's current product, whichever was landed first.
LaterPeriodWins ==
    pc = "commit" =>
      \A a, b \in optLanding : \A p \in BaseNow(txn.product_type) :
        (TwoPeriods(a, b) /\ NaturalKey(p) = LandedKey(a)) =>
            \E po \in productOption :
                /\ CurrentOfKey(p.id, SentinelKey(a.payload)) = {po}
                /\ po.content_hash = b.content_hash

\* C8, amended: the later dcls_month wins when it is the dcls_month of the product's current
\* row; the option row whose dcls_month differs from the current product's is never current
\* under it.
MatchingPeriodWins ==
    pc = "commit" =>
      \A a, b \in optLanding : \A p \in BaseNow(txn.product_type) :
        (TwoPeriods(a, b) /\ NaturalKey(p) = LandedKey(a)) =>
          /\ p.payload.dcls_month = b.payload.dcls_month =>
                \E po \in productOption :
                    /\ CurrentOfKey(p.id, SentinelKey(a.payload)) = {po}
                    /\ po.content_hash = b.content_hash
          /\ \A o \in {a, b} :
                p.payload.dcls_month # o.payload.dcls_month =>
                    \A po \in CurrentOfKey(p.id, SentinelKey(a.payload)) :
                        po.content_hash # o.content_hash

\* C8 case: the later period was landed first, the earlier period after it, the product's
\* current row carries the later period, and the later period's option is current
MatchingPeriodWinsWitness ==
    /\ pc = "commit"
    /\ \E a, b \in optLanding : \E p \in BaseNow(txn.product_type) :
         /\ TwoPeriods(a, b) /\ NaturalKey(p) = LandedKey(a)
         /\ a.run_ts > b.run_ts
         /\ p.payload.dcls_month = b.payload.dcls_month
         /\ \E po \in CurrentOfKey(p.id, SentinelKey(a.payload)) :
                po.content_hash = b.content_hash

\* C9: at the end of a run, every key of the type with base landing rows has a current
\* core.product row, and it carries the content hash of a landing row with the latest
\* dcls_month of the key, whatever the run_ts of the rows.
LatestMonthWins ==
    pc = "commit" =>
      \A k \in { LandedKey(b) : b \in BaseRowsOf(txn.product_type) } :
        LET land   == { b \in baseLanding : LandedKey(b) = k }
            latest == { b \in land :
                          \A c \in land : ToDate(c.payload.dcls_month)
                                            <= ToDate(b.payload.dcls_month) }
        IN \E p \in product :
              /\ p.is_current /\ NaturalKey(p) = k
              /\ \E b \in latest : p.content_hash = b.content_hash

\* C9 case: a row with an older dcls_month was landed after the row with the latest one,
\* and the current row carries the latest month
LatestMonthWinsWitness ==
    /\ pc = "commit"
    /\ \E old, new \in baseLanding : \E p \in product :
         /\ LandedKey(old) = LandedKey(new)
         /\ ToDate(old.payload.dcls_month) < ToDate(new.payload.dcls_month)
         /\ old.run_ts > new.run_ts
         /\ p.is_current /\ NaturalKey(p) = LandedKey(new)
         /\ p.content_hash = new.content_hash

\* C10: after the recomputation of a run, and between runs, every current core.product row
\* has options_count equal to the number of its current options and options_set_hash equal
\* to the hash over them, and 0 and NULL when it has none.
OptionSetCoherent ==
    pc \in {"analyze", "commit", "idle"} =>
      \A p \in product :
        p.is_current =>
          LET opts == { po \in productOption : po.is_current /\ po.product_id = p.id }
          IN /\ p.options_count = IntVal(Cardinality(opts))
             /\ p.options_set_hash = IF opts = {} THEN NullHash ELSE OptionsSetHash(opts)

\* C10 case: a current product without options beside a current product whose option was
\* replaced by a run
OptionSetCoherentWitness ==
    /\ pc = "idle"
    /\ \E p \in product : p.is_current /\ p.options_count = IntVal(0)
    /\ \E q \in product : \E a, b \in productOption :
         /\ q.is_current /\ q.options_count = IntVal(1)
         /\ a.product_id = q.id /\ b.product_id = q.id
         /\ ~a.is_current /\ b.is_current

-----------------------------------------------------------------------------
(* Properties of the policy association syncs *)

\* the rows of a policy in an association table
RowsOf(rows, id) == { r \in rows : r[1] = id }

TouchedIds(items) == { it.id : it \in items }

\* C6: a sync changes no row of a policy that is not among its items, and no row of
\* another association table.
UntouchedRowsKept ==
    [][\A t \in AssocTables : \A id \in PolicyIds :
          (t # lastSync'.table \/ id \notin TouchedIds(lastSync'.items)) =>
              RowsOf(assoc'[t], id) = RowsOf(assoc[t], id)]_vars

\* C6 case: a sync that inserted and deleted rows of one policy while another policy,
\* not among its items, has rows in the same table
UntouchedRowsKeptWitness ==
    /\ lastSync.table # NULL
    /\ ~lastSync.error
    /\ lastSync.inserted > 0 /\ lastSync.deleted > 0
    /\ \E id \in PolicyIds :
         /\ id \notin TouchedIds(lastSync.items)
         /\ RowsOf(assoc[lastSync.table], id) # {}

\* C7: after a sync the rows of every touched policy are the pairs resolved from its tag
\* list; the sync inserted target - existing and deleted existing - target.
SyncIsExact ==
    lastSync.table # NULL =>
      LET t        == lastSync.table
          touched  == TouchedIds(lastSync.items)
          target   == UNION { { <<it.id, MasterMap(t)[g]>> :
                                  g \in SeqToSet(it.tags) \cap DOMAIN MasterMap(t) } :
                              it \in lastSync.items }
          existing == { r \in lastSync.before : r[1] \in touched }
      IN /\ { r \in assoc[t] : r[1] \in touched } = target
         /\ lastSync.inserted = Cardinality(target \ existing)
         /\ lastSync.deleted = Cardinality(existing \ target)

-----------------------------------------------------------------------------
(* Option-set hash, run counts *)

\* the options that count for a product row: its rows with is_current = TRUE
LiveOptions(pid) == { po \in productOption : po.is_current /\ po.product_id = pid }

\* C11: two product rows whose current options are the same set of option items have the
\* same options_set_hash, whatever the order in which their option rows were inserted.
HashOrderIndependent ==
    pc \in {"analyze", "commit", "idle"} =>
      \A p, q \in product :
        (/\ LiveOptions(p.id) # {}
         /\ { o.payload : o \in LiveOptions(p.id) } = { o.payload : o \in LiveOptions(q.id) })
            => p.options_set_hash = q.options_set_hash

\* C11 case: two product rows with the same two option items, inserted in one order under
\* the first and in the opposite order under the second
HashOrderIndependentWitness ==
    /\ pc = "idle"
    /\ \E p, q \in product : \E a1, a2, b1, b2 \in productOption :
         /\ p.id # q.id
         /\ LiveOptions(p.id) = {a1, a2} /\ LiveOptions(q.id) = {b1, b2}
         /\ a1.payload = b1.payload /\ a2.payload = b2.payload
         /\ a1.payload # a2.payload
         /\ a1.id < a2.id /\ b1.id > b2.id
         /\ p.options_set_hash = q.options_set_hash
         /\ p.options_set_hash # NullHash

\* C12: a run for a type whose landing tables are unchanged since its last committed run
\* and hold one base row, the one of the single product of the type, returns closed = 0,
\* inserted = 0, touched = 1 and creates no row.
UnchangedRunCounts ==
    (/\ pc = "commit"
     /\ txn.product_type \in synced
     /\ Cardinality(BaseRowsOf(txn.product_type)) = 1
     /\ Cardinality({ p \in txn.saved.product :
                        p.product_type = txn.product_type }) = 1) =>
        /\ txn.opt_counts = <<0, 0, 1>>
        /\ { r.id : r \in product } = { r.id : r \in txn.saved.product }
        /\ { r.id : r \in productOption } = { r.id : r \in txn.saved.productOption }

-----------------------------------------------------------------------------
(* Properties of the policy pipeline *)

\* the status the rule assigns, its cases taken in the order they are stated
StatusRule(apply_type, apply_start, apply_end, today) ==
    CASE apply_type = "ALWAYS_OPEN" -> "OPEN"
      [] apply_type = "CLOSED" -> "CLOSED"
      [] apply_type = "PERIODIC" /\ apply_start # NullDate /\ apply_end # NullDate ->
            (CASE apply_start <= today /\ today <= apply_end -> "OPEN"
               [] today < apply_start -> "UPCOMING"
               [] OTHER -> "CLOSED")
      [] OTHER -> "UNKNOWN"

\* C13: after update_policy_status ran with date today, every core.policy row has the
\* status that (apply_type, apply_start, apply_end, today) determine: OPEN for ALWAYS_OPEN,
\* CLOSED for CLOSED, OPEN / UPCOMING / CLOSED for a PERIODIC row with both bounds, and
\* UNKNOWN otherwise; no row keeps a status computed earlier.
StatusRecomputed ==
    statusRun # 0 =>
        \A p \in policy :
            p.status = StatusRule(p.apply_type, p.apply_start, p.apply_end, statusRun)

\* a run at day 1 that found one PERIODIC row opening on day 2 and one row of unknown type
StatusRecomputedWitness ==
    /\ statusRun = 1
    /\ \E p, q \in policy :
          /\ p.apply_type = "PERIODIC" /\ p.apply_start = 2 /\ p.status = "UPCOMING"
          /\ q.apply_type = "UNKNOWN" /\ q.status = "UNKNOWN"

-----------------------------------------------------------------------------
(* Properties of the special-condition analysis *)

\* special-condition texts that state no condition
PlaceholderTexts == {"", " ", "-"}

\* C14: a product whose special-condition text is empty, blank or a placeholder
\* contributes no call of the external model to the run that analyses it.
PlaceholderNeverSent ==
    \A p \in product : p.payload.spcl_cnd \in PlaceholderTexts => p.id \notin txn.calls

\* the error marker of a classification record
ErrorFlag(r) == "error" \in DOMAIN r /\ r.error

\* C15: a product whose classification failed, or could not be attempted, has a
\* classification record with all flags false and the error flag set.
FailedClassificationRecorded ==
    \A id \in txn.failed :
        \E r \in specialCondition : r.product_id = id /\ r.flags = {} /\ ErrorFlag(r)

\* a product is sent to the external model only when its row was committed before
AnalysedRowsCommitted ==
    txn.status = "open" =>
        \A id \in txn.calls : \E p \in txn.saved.product : p.id = id

\* the analysis step does not end the run in a rollback
AnalysisKeepsRun ==
    pc = "analyze" => txn'.status # "aborted"

\* C16: classification is invoked for committed product rows only, and no failure of
\* the classification, of the external call or of saving its result, rolls back the run.
ClassificationAfterCommit ==
    []AnalysedRowsCommitted /\ [][AnalysisKeepsRun]_vars

-----------------------------------------------------------------------------
(* Properties of the landing normalizers *)

\* C17: each landing table holds at most one row per (natural key, content hash),
\* however often the normalizers ran: a run over items already landed adds no row.
LandingRowsUnique ==
    /\ \A r, t \in baseLanding : LandingKey(r) = LandingKey(t) => r = t
    /\ \A r, t \in optLanding : LandingKey(r) = LandingKey(t) => r = t
    /\ \A r, t \in policyLanding : PolicyLandingKey(r) = PolicyLandingKey(t) => r = t

\* four runs of the base and option normalizers left one row in each table
LandingRowsUniqueWitness ==
    /\ clock = 4
    /\ Cardinality(baseLanding) = 1
    /\ Cardinality(optLanding) = 1

\* C18: an item of a policy page without plcyNo produces no landing row and no policy
\* entity: every landing row stems from an item that carries its natural key, and no
\* current or core row exists for a key that no item carries.
KeylessItemDropped ==
    /\ \A l \in policyLanding : ItemGet(l.raw_json, "plcyNo") # NULL
    /\ \A c \in policyCurrent : \E i \in PolicyItems : ItemGet(i, "plcyNo") = c.policy_id
    /\ \A p \in policy : \E i \in PolicyItems : ItemGet(i, "plcyNo") = p.id

\* the fields of an item that carry no content
VolatileFields == DROP_FIELDS \cup {"fin_co_subm_day"}

\* the content of a policy item: its fields without the volatile ones, in no order
PolicyContent(item) == { f \in SeqToSet(item) : f[1] \notin VolatileFields }

\* the content of a baseList item
BaseContent(payload) == [dcls_month |-> payload.dcls_month, spcl_cnd |-> payload.spcl_cnd]

\* two observations of one policy item that differ in field order or volatile fields only
\* share one landing row
PolicyHashIgnoresVolatile ==
    \A r, t \in policyLanding :
        (r.policy_id = t.policy_id /\ PolicyContent(r.raw_json) = PolicyContent(t.raw_json))
            => r = t

\* C19: two observations of an item that differ only in field order or in volatile
\* fields have the same content hash: they share one landing row and one CORE version.
HashIgnoresVolatile ==
    /\ PolicyHashIgnoresVolatile
    /\ \A r, t \in baseLanding :
          (/\ r.product_type = t.product_type /\ r.fin_prdt_cd = t.fin_prdt_cd
           /\ BaseContent(r.payload) = BaseContent(t.payload)) => r.content_hash = t.content_hash
    /\ \A p, q \in product :
          (/\ p.product_type = q.product_type /\ p.ext_id = q.ext_id
           /\ BaseContent(p.payload) = BaseContent(q.payload)
           /\ p.valid_from_ts # q.valid_from_ts) => p.content_hash = q.content_hash

\* the ingested_at values of the landing rows of one policy in the lookback window
SeenInWindow(lookback, pid) ==
    { l.ingested_at : l \in { m \in LookbackWindow(lookback, polClock) : m.policy_id = pid } }

\* what a refresh with the given lookback leaves for the policies of its window, with
\* last_seen_at as given
RefreshedRows(lookback, last_seen(_)) ==
    \A pid \in { l.policy_id : l \in LookbackWindow(lookback, polClock) } :
        /\ Cardinality({ c \in policyCurrent' : c.policy_id = pid }) = 1
        /\ \A c \in policyCurrent' : c.policy_id = pid =>
              /\ c.record_hash \in
                    { l.record_hash : l \in LatestOf(LookbackWindow(lookback, polClock), pid) }
              /\ c.first_seen_at = FirstSeen(pid)
              /\ c.last_seen_at = last_seen(pid)

\* C20: refresh_current leaves exactly one current row per policy of the window, with
\* the hash of the policy's most recent landing row of the window, first_seen_at the
\* least ingested_at of all its landing rows, and last_seen_at the greatest ingested_at
\* of its rows in the window.
RefreshSelectsLatest ==
    [][\A lookback \in 0..MaxLookback :
         RefreshCurrent(lookback) =>
            RefreshedRows(lookback, LAMBDA pid : SetMax(SeenInWindow(lookback, pid)))]_vars

\* the current rows a refresh with the given lookback does not upsert
OutsideWindow(lookback) ==
    { c \in policyCurrent :
        \A l \in LookbackWindow(lookback, polClock) : l.policy_id # c.policy_id }

\* a refresh changes no CORE row and, of the rows outside its window, only is_active
SweepOnlyFlags ==
    \A lookback \in 0..MaxLookback :
        RefreshCurrent(lookback) =>
            /\ policy' = policy
            /\ assoc' = assoc
            /\ \A c \in OutsideWindow(lookback) :
                  [c EXCEPT !.is_active = IF c.last_seen_at < polClock - InactiveAfterDays
                                          THEN FALSE ELSE c.is_active] \in policyCurrent'

\* run_etl brings every current row to core.policy, whatever its is_active
InactiveReconciled ==
    UpsertPolicy =>
        \A c \in policyCurrent :
            \E p \in policy' : p.id = c.policy_id /\ p.content_hash = c.record_hash

\* C21: the staleness sweep only clears is_active of the rows of stg.youthpolicy_current
\* not seen for INACTIVE_AFTER_DAYS; core.policy and the association tables are unchanged
\* by it, and an inactive row is reconciled into core.policy like an active one.
SweepIsSoftFlag == [][SweepOnlyFlags /\ InactiveReconciled]_vars

\* a row swept inactive whose content is in core.policy, next to an active row that
\* run_etl has not reconciled yet
SweepIsSoftFlagWitness ==
    \E c \in policyCurrent :
        /\ ~c.is_active
        /\ c.first_seen_at = c.last_seen_at
        /\ \E p \in policy : p.id = c.policy_id /\ p.content_hash = c.record_hash
        /\ \E d \in policyCurrent : d.is_active /\ \A p \in policy : p.id # d.policy_id

-----------------------------------------------------------------------------
(* Properties of concurrent reconciler runs *)

SameKey(a, b) == a.ext_source = b.ext_source /\ a.ext_id = b.ext_id

OneCurrentPerKey(rows) ==
    \A a, b \in rows : (a.is_current /\ b.is_current /\ SameKey(a, b)) => a.id = b.id

\* the committed rows, the rows as each open run sees them, and the rows the two open
\* runs hold between them
NoSecondCurrentRow ==
    /\ OneCurrentPerKey(product)
    /\ \A r \in Runs : OneCurrentPerKey(RunView(r))
    /\ OneCurrentPerKey(runs[1].writes \cup runs[2].writes)

\* the INSERT of a run that waited for the other transaction, and finds that it committed
\* a current row of the same key, ends the run with an error and writes nothing
BlockedInsertFails ==
    \A r \in Runs :
        ( /\ runs[r].pc = "insert" /\ runs[r].waiting
          /\ runs'[r] # runs[r]
          /\ \E n \in runs[r].pending : \E p \in product : p.is_current /\ SameKey(p, n) )
        => /\ runs'[r].status = "failed"
           /\ runs'[r].writes = {}
           /\ product' = product

\* C23: when two reconciler runs overlap in time, neither the committed core.product nor
\* what a run is about to commit ever holds two is_current rows for one natural key; the
\* INSERT that would add the second current row waits for the other transaction, is
\* rejected by uq_product_current once that transaction committed, and its run fails.
ConcurrentInsertRejected == []NoSecondCurrentRow /\ [][BlockedInsertFails]_vars

\* C23 case: one landing row, two runs started on it; one committed the current row of
\* the key, the INSERT of the other took the next id and was rejected
ConcurrentInsertRejectedWitness ==
    /\ Cardinality(baseLanding) = 1
    /\ \E r \in Runs : runs[r].status = "failed" /\ runs[Other(r)].status = "committed"
    /\ Cardinality(product) = 1
    /\ productSeq = 2

-----------------------------------------------------------------------------
(* Properties of a failed pass *)

-----------------------------------------------------------------------------
(* Properties of the Read API *)

ServedByApi ==
    UNION { get_finproduct_list(t) : t \in ProductTypes \cup {NULL} }
        \cup UNION { get_finproduct_detail(id) : id \in 1..productSeq }

\* C25: the list and detail endpoints return only core.product rows with is_current =
\* TRUE, each with core.product_option rows with is_current = TRUE only, and the list
\* returns one row per natural key.
ApiServesCurrentSet ==
    /\ \A item \in ServedByApi :
         /\ item.product.is_current
         /\ \A po \in item.options : po.is_current
    /\ \A a, b \in get_finproduct_list(NULL) :
         NaturalKey(a.product) = NaturalKey(b.product) => a = b

-----------------------------------------------------------------------------
(* Properties of the policy reconciler *)

\* C26: no step of the policy reconciler changes the content_hash of a core.policy row
\* that exists: changed content is stored as a further row and the row that was there
\* before the run keeps its content.
PolicyRowsVersioned ==
    [][ \A p \in policy : \E q \in policy' : q.id = p.id /\ q.content_hash = p.content_hash ]_vars

-----------------------------------------------------------------------------
(* Properties of an interrupted run *)

RowsOfPolicy(rows, id) == { r \in rows : r[1] = id }

\* the policy database after run_etl was ended between upsert_policy and its last sync
EtlInterruptedValid ==
    etl.status = "interrupted" =>
        /\ \A p, q \in policy : p.id = q.id => p = q
        /\ \A it \in etl.items :
             \E p \in policy : p.id = it.id /\ p.content_hash = it.content_hash
        /\ \A t \in AssocTables : \A row \in assoc[t] : \E p \in policy : p.id = row[1]
        /\ \A e \in etl.eligibility : \E p \in policy : p.id = e[1]
        /\ \A k \in 1..(Len(ETL_SYNCS) - 1) : \A it \in etl.items :
             RowsOfPolicy(assoc[ETL_SYNCS[k]], it.id) =
                 IF k < etl.step
                 THEN SeqToSet(TargetPairsOf(ETL_SYNCS[k], it.id, it.tags))
                 ELSE RowsOfPolicy(etl.before[ETL_SYNCS[k]], it.id)

\* the finproduct database after a pass was ended after BASE_INSERT_SQL and before COMMIT
FinInterruptedValid ==
    (txn.status = "open" /\ txn'.status = "interrupted") =>
        /\ OneCurrentPerKey(product')
        /\ \A po \in productOption' : \E p \in product' : p.id = po.product_id
        /\ \A sc \in specialCondition' : \E p \in product' : p.id = sc.product_id
        /\ \A id \in txn.changed :
             /\ \A p \in product' : p.id # id
             /\ \A po \in productOption' : po.product_id # id
             /\ \A sc \in specialCondition' : sc.product_id # id
        /\ \A p \in product' :
             /\ p \in txn.saved.product
             /\ { po \in productOption' : po.product_id = p.id }
                  = { po \in txn.saved.productOption : po.product_id = p.id }

-----------------------------------------------------------------------------
(* Properties of the tag lookup *)

\* the pairs the tags of an item resolve to in the master table
ResolvedPairs(t, it) ==
    { <<it.id, MasterMap(t)[g]>> : g \in SeqToSet(it.tags) \cap DOMAIN MasterMap(t) }

\* two tags of an item resolve to the same new pair
ResolvedTwice(t, before, it) ==
    \E i, j \in DOMAIN it.tags :
        /\ i # j
        /\ it.tags[i] \in DOMAIN MasterMap(t) /\ it.tags[j] \in DOMAIN MasterMap(t)
        /\ MasterMap(t)[it.tags[i]] = MasterMap(t)[it.tags[j]]
        /\ <<it.id, MasterMap(t)[it.tags[i]]>> \notin before

\* C28: a tag without a match in the master table takes no part in a sync: the sync ends
\* as it would without the tag (it fails only where resolved tags make it fail), leaves
\* for every policy of the batch exactly the pairs of its resolved tags, writes no row
\* for the unmatched tag, and reports the unmatched tags as unknown.
UnknownTagsOmitted ==
    lastSync.table # NULL =>
        LET t == lastSync.table
        IN /\ lastSync.error = (\E it \in lastSync.items : ResolvedTwice(t, lastSync.before, it))
           /\ ~lastSync.error =>
                /\ lastSync.unknown =
                     UNION { SeqToSet(it.tags) \ DOMAIN MasterMap(t) : it \in lastSync.items }
                /\ \A it \in lastSync.items :
                     { r \in assoc[t] : r[1] = it.id } = ResolvedPairs(t, it)
                /\ \A r \in assoc[t] : r[2] # 0

\* C28 case: a batch of two policies, one with the unmatched tag "Z" next to "B" and "C",
\* the other with "A" and "B": the sync ended without error
UnknownTagsOmittedWitness ==
    /\ lastSync.table # NULL
    /\ ~lastSync.error
    /\ lastSync.unknown = {"Z"}
    /\ \E a, b \in lastSync.items :
         /\ a.tags = <<"B", "C", "Z">> /\ b.tags = <<"A", "B">>
         /\ { r \in assoc[lastSync.table] : r[1] = a.id } = { <<a.id, 2>>, <<a.id, 3>> }
         /\ { r \in assoc[lastSync.table] : r[1] = b.id } = { <<b.id, 1>>, <<b.id, 2>> }

-----------------------------------------------------------------------------
(* Properties of candidate selection *)

\* a sorts before b in the order (disclosure month, run_ts, content_hash), all descending
BaseBeforeTotal(a, b) ==
    \/ BaseBefore(a, b)
    \/ /\ ~BaseBefore(b, a)
       /\ a.content_hash > b.content_hash

\* C30: the candidate of a natural key is the first landing row of the key in the order
\* (disclosure month, run_ts, content_hash), so every statement of a run that computes
\* the candidates gets the same one: two landing rows of a key with equal month and
\* equal run_ts and different hashes leave one possible candidate.
CandidateByTotalOrder ==
    \A pt \in ProductTypes :
        /\ Cardinality(BaseCandidateSets(pt)) = 1
        /\ \A cand \in BaseCandidateSets(pt) : \A c \in cand : \A b \in BaseRowsOf(pt) :
             BasePartition(b) = BasePartition(c) => ~BaseBeforeTotal(b, c)

-----------------------------------------------------------------------------
(* Properties of the RAW fetch loop *)

DeclaresTotal == extract_paging_meta(ingest.upstream) # 0

\* a page at or after the current one has no items: an empty list, no list key,
\* or a value that is not a list
ReturnsEmptyPage ==
    \E p \in ingest.page..MaxRawPage : ingest.upstream.body[p] # "items"

\* as ReturnsEmptyPage, for the pages whose item list is a list
ReturnsEmptyList ==
    \E p \in ingest.page..MaxRawPage : ItemsOf(ingest.upstream.body[p]) = "empty"

Stopped == ingest.pc \in {"done", "aborted"}

\* C31: the fetch loop stops, and so issues finitely many requests, whenever
\* END_PAGE is set, the upstream declares a total number of pages, or a page at
\* or after the current one has no items
FetchLoopTerminates ==
    [](/\ ingest.pc = "fetch"
       /\ (ingest.END_PAGE # 0 \/ DeclaresTotal \/ ReturnsEmptyPage)
       => <>Stopped)

\* the loop stops when the page without items carries an empty list
FetchLoopTerminatesOnEmptyList ==
    [](/\ ingest.pc = "fetch"
       /\ (ingest.END_PAGE # 0 \/ DeclaresTotal \/ ReturnsEmptyList)
       => <>Stopped)

\* the attempts of one fetch_page call never exceed RETRY_MAX, the loop is left
\* exactly when they are exhausted, and the RAW log holds fetched pages only
BoundedAttempts ==
    /\ ingest.attempt <= RETRY_MAX
    /\ (ingest.pc = "fetch" => ingest.attempt < RETRY_MAX)
    /\ (ingest.pc = "aborted" <=> ingest.attempt = RETRY_MAX)
    /\ ingest.rows \subseteq ingest.fetched

\* a failing attempt writes no RAW row and removes none
FailedAttemptKeepsRows ==
    /\ ingest.rows \subseteq ingest'.rows
    /\ (ingest'.attempt > ingest.attempt => ingest'.rows = ingest.rows)

\* C32: a failing page fetch is attempted at most RETRY_MAX times, then the stage
\* aborts; the failed page gets no RAW row, the rows of the pages fetched before
\* stay, and a RAW row exists only for a page whose fetch succeeded
FailedFetchAborts == []BoundedAttempts /\ [][FailedAttemptKeepsRows]_vars

\* the stage aborted at a page after it had stored the page before
FailedFetchAbortsWitness ==
    /\ ingest.pc = "aborted"
    /\ ingest.rows # {}
    /\ ingest.page \notin ingest.rows

-----------------------------------------------------------------------------
(* Properties of re-observed content *)

\* the current core.product row of every observed key of product type pt carries
\* the content hash of an item of the key in the batch landed last
BaseCarriesObserved(pt) ==
    \A k \in DOMAIN observed.base :
        k[1] = pt /\ observed.base[k] # {} =>
            \E p \in product : /\ p.is_current
                               /\ p.product_type = k[1] /\ p.ext_id = k[2]
                               /\ p.content_hash \in observed.base[k]

\* a committed run of upsert_for_type leaves the observed hashes current
ReconciledBaseObserved ==
    \A pt \in ProductTypes :
        pc = "commit" /\ pc' = "idle" /\ txn.product_type = pt /\ txn'.status = "committed"
            => BaseCarriesObserved(pt)'

\* refresh_current and run_etl would change no hash: the current row of every landed
\* policy has the hash of a latest landing row, core.policy has the hash of the current row
PolicyUpToDate ==
    /\ \E tmp_latest \in DistinctOnLatest(policyLanding) :
          \A tl \in tmp_latest : \E c \in policyCurrent :
              c.policy_id = tl.policy_id /\ c.record_hash = tl.record_hash
    /\ \A c \in policyCurrent : \E p \in policy :
          p.id = c.policy_id /\ p.content_hash = c.record_hash

PolicyCarriesObserved ==
    \A k \in DOMAIN observed.policy :
        observed.policy[k] # {} =>
            \E p \in policy : p.id = k /\ p.content_hash \in observed.policy[k]

\* a step of refresh_current or of run_etl that leaves the tables up to date leaves
\* the observed hashes in core.policy; the landing rows of a policy were inserted at
\* different times, so that the latest row of each policy is one row
DistinctIngestTimes ==
    \A l, m \in policyLanding :
        l.policy_id = m.policy_id /\ l.ingested_at = m.ingested_at => l = m

ReconciledPolicyObserved ==
    /\ policyCurrent' # policyCurrent \/ policy' # policy
    /\ DistinctIngestTimes'
    /\ PolicyUpToDate'
    => PolicyCarriesObserved'

\* C33: after an observation was landed and reconciled, the current CORE version of its
\* natural key carries the content hash of the most recent observation of the key, also
\* when the content went from A to B and back to A and A is in the landing table already
LatestObservationIsCurrent ==
    [][ReconciledBaseObserved]_vars /\ [][ReconciledPolicyObserved]_vars

\* the two feeds apart
LatestBaseObservationIsCurrent == [][ReconciledBaseObserved]_vars

LatestPolicyObservationIsCurrent == [][ReconciledPolicyObserved]_vars

-----------------------------------------------------------------------------
(* Properties of option rows and their products *)

\* C34: between runs no core.product_option row is current while the core.product row
\* that owns it is not current
CurrentOptionHasCurrentProduct ==
    pc = "idle" =>
        \A po \in productOption :
            po.is_current => \E p \in product : p.id = po.product_id /\ p.is_current

-----------------------------------------------------------------------------
(* Properties of a run after an interrupted run *)

\* the association rows and the eligibility row of the items are those of their payloads
SyncedToTarget(items) ==
    \A it \in items :
        /\ \A t \in AssocTables :
             RowsOfPolicy(assoc[t], it.id) = SeqToSet(TargetPairsOf(t, it.id, it.tags))
        /\ ToIntOrNone(it.id) # NULL => <<it.id, it.content_hash>> \in etl.eligibility

\* the run that follows an interrupted run, the staging tables selecting no policy
LaterRunSyncs ==
    etl.status = "interrupted" /\ etl'.n = etl.n + 1 /\ etl'.pc = "idle"
        => SyncedToTarget(etl.items)'

\* C35: when run_etl stopped after upsert_policy committed and before its last sync
\* committed, the next run_etl on the same staging state leaves the association and
\* eligibility rows of the policies of the stopped run at the target of their payloads
LaterRunCompletesSyncs == [][LaterRunSyncs]_vars

-----------------------------------------------------------------------------
(* Properties of the active flag *)

\* a refresh leaves a policy inactive only when its most recent observation is older
\* than INACTIVE_AFTER_DAYS
InactiveOnlyWhenUnobserved ==
    policyCurrent' # policyCurrent =>
        \A c \in policyCurrent' :
            c.policy_id \in DOMAIN observed.policy_at /\ ~c.is_active
                => observed.policy_at[c.policy_id] < polClock - InactiveAfterDays

\* C36: a policy that every run observes with unchanged content stays active in
\* stg.youthpolicy_current whatever time passes; only a policy whose last observation
\* is older than INACTIVE_AFTER_DAYS becomes inactive
ObservedPolicyStaysActive == [][InactiveOnlyWhenUnobserved]_vars

-----------------------------------------------------------------------------
(* Properties of the stored payload *)

\* C37: whatever the order of the landing, refresh and reconcile steps, content_hash of
\* every core.policy row is the record hash of the payload stored in the row (the landing
\* rows of a policy inserted at different times)
HashMatchesPayload ==
    DistinctIngestTimes => \A p \in policy : p.content_hash = record_hash(p.payload)

-----------------------------------------------------------------------------
(* Properties of a failed classification *)

\* a current product of the run's type whose classification failed in an earlier run and
\* that has no classification record
FailedEarlier(p) ==
    /\ p.is_current
    /\ p.product_type = txn.product_type
    /\ p.id \notin txn.changed
    /\ p.id \in DOMAIN observed.failed /\ observed.failed[p.id]
    /\ \A r \in specialCondition : r.product_id # p.id

\* the analysis step of a run in which the external model answers
ResubmittedAfterFailure ==
    Analyze("on") /\ pc' = "commit" =>
        \A p \in product :
            FailedEarlier(p) =>
                \/ p.id \in txn'.calls
                \/ \E r \in specialCondition' : r.product_id = p.id

\* C38: a current product with a special-condition text whose classification failed in
\* the run that inserted it is submitted to the classification again by a later run, also
\* when its content has not changed
FailedClassificationRetried == [][ResubmittedAfterFailure]_vars

-----------------------------------------------------------------------------
(* Properties of closed rows *)

\* is_current = TRUE exactly when valid_to_ts IS NULL
CurrentIffOpen ==
    \A r \in product \cup productOption : r.is_current <=> r.valid_to_ts = NullTs

\* the step is not the ROLLBACK of a transaction
NotRolledBack == ~(pc # "idle" /\ pc' = "idle" /\ txn'.status \in {"aborted", "interrupted"})

\* a closed row of the table stays closed, and a row that becomes current has a new id
ClosedStaysClosed(rows, rowsAfter) ==
    /\ \A r \in rows : ~r.is_current =>
          \A q \in rowsAfter : q.id = r.id => ~q.is_current /\ q.valid_to_ts = r.valid_to_ts
    /\ \A q \in rowsAfter : q.is_current =>
          \/ \E r \in rows : r.id = q.id /\ r.is_current
          \/ ~\E r \in rows : r.id = q.id

\* no step but a ROLLBACK reopens a row of core.product or core.product_option
NeverReopened ==
    NotRolledBack => /\ ClosedStaysClosed(product, product')
                     /\ ClosedStaysClosed(productOption, productOption')

\* C39: in core.product and core.product_option a row is current exactly when its
\* valid_to_ts is NULL, a closed row is never made current again by a later run, and
\* content that returns to an earlier value of its key gets a new row
ClosedRowsStayClosed == []CurrentIffOpen /\ [][NeverReopened]_vars

\* a key whose content came back to an earlier value: the earlier row is closed and a
\* newer row with the same content is current
ClosedRowsStayClosedWitness ==
    /\ pc = "idle" /\ txn.status = "committed"
    /\ \E a, b \in product :
          /\ a.ext_source = b.ext_source /\ a.ext_id = b.ext_id
          /\ a.content_hash = b.content_hash /\ a.id < b.id
          /\ ~a.is_current /\ a.valid_to_ts # NullTs
          /\ b.is_current /\ b.valid_from_ts > a.valid_to_ts

-----------------------------------------------------------------------------
(* Properties of a repeated reference *)

\* the tag list of the item names one reference of the table more than once
RepeatsReference(table, it) == HasDuplicates(TargetPairsOf(table, it.id, it.tags))

\* C40: a sync with an item whose tag list names the same reference more than once (a tag
\* repeated, or two tags of one master id) ends without error and leaves one row for the
\* pair: the rows of the item are its resolved pairs
RepeatedReferenceSynced ==
    (/\ lastSync.table # NULL
     /\ \E it \in lastSync.items : RepeatsReference(lastSync.table, it)) =>
        /\ ~lastSync.error
        /\ \A it \in lastSync.items :
              RowsOf(assoc[lastSync.table], it.id)
                  = SeqToSet(TargetPairsOf(lastSync.table, it.id, it.tags))

-----------------------------------------------------------------------------
(* Properties of the orchestrator *)

\* C22: the stages are started in the order of STEPS, each only after all earlier ones
\* exited with status 0; after the first non-zero exit no stage is started and the
\* orchestrator exits non-zero.
StagesInOrder ==
    /\ Len(orch.started) <= Len(STEPS)
    /\ \A i \in DOMAIN orch.started : orch.started[i] = STEPS[i]
    /\ \A i \in DOMAIN orch.started : \A j \in 1..(i - 1) : orch.exits[j] = 0
    /\ \A i \in DOMAIN orch.exits :
          orch.exits[i] # 0 => /\ Len(orch.started) = i
                               /\ orch.state = "failed"
                               /\ orch.exit # 0

\* the third stage exited non-zero after two stages that exited 0, and the run is over
StagesInOrderWitness ==
    /\ orch.exits = <<0, 0, 1>>
    /\ orch.state = "failed"
    /\ policyLanding # {}

\* C29: a stage whose database transaction failed exits non-zero, so the orchestrator
\* halts at it: no stage with a failed transaction is recorded with exit status 0.
FailedStageExitsNonZero ==
    \A i \in DOMAIN orch.exits : orch.failed[i] => orch.exits[i] # 0

====
